---- MODULE Spec2Model ----
(***************************************************************************)
(* Model of the agent orchestration core of memory-assistant:              *)
(*   - KeyPool / ProviderPool (src/src/provider/pool.rs): round-robin key  *)
(*     rotation over a shared atomic cursor, failover on RateLimited;      *)
(*   - ClaudeProvider::chat (src/src/provider/claude.rs): mapping of one   *)
(*     HTTP exchange to a typed result;                                     *)
(*   - AgentLoop::run (src/src/agent/loop_runner.rs): the turn loop;       *)
(*   - ToolRegistry::execute (src/src/agent/tool_registry.rs) and the      *)
(*     tools it dispatches to.                                              *)
(*                                                                         *)
(* The specifications share the variables:                                 *)
(*   SpecSeq       one caller issuing chat() calls one after the other;    *)
(*   SpecWrap      SpecSeq on a pool whose cursor earlier calls advanced;  *)
(*   SpecConc      NumProcs callers, one chat() call each, concurrently;   *)
(*   SpecCursor    SpecConc with every key rate limited;                   *)
(*   Spec          one AgentLoop::run invocation driving the pool;         *)
(*   SpecFair      Spec with calls and tool executions that return;        *)
(*   SpecWire      build_claude_messages on a message list;                *)
(*   SpecClient    ClaudeProvider::chat on one exchange;                   *)
(*   SpecClean     clean_response on a text and a tools_used list;         *)
(*   SpecCleanFair clean_response from its call on, under fairness;        *)
(*   SpecTurn      the turn handler on one text message;                   *)
(*   SpecSession   SpecTurn on a pool of one key;                          *)
(*   SpecProgress  SpecTurn on the first message of a session;             *)
(*   SpecAccess    handle_message up to the handler a message goes to.     *)
(***************************************************************************)
EXTENDS Integers, Sequences, FiniteSets, TLC

\* ------------------------------------------------------------------ bounds
\* largest key list of a pool (the key list is fixed at construction)
MaxKeys == 3
\* concurrent callers of chat() in SpecConc
NumProcs == 2
\* width in bits of the cursor, an AtomicUsize whose fetch_add wraps around
\* (usize::BITS scaled down; an even width, as 32 and 64 are)
CursorBits == 6
\* chat() calls a caller issues in SpecSeq
MaxSeqCalls == 3
\* largest key list of the pool in SpecConc
MaxConcKeys == 2
\* largest turn budget (max_turns) of a run
MaxTurns == 2
\* largest key list of the pool a run uses
MaxLoopKeys == 2
\* longest message list (after the system message) handed to the adapter
MaxMsgs == 4
\* most fragments a text handed to the sanitizer is composed of
MaxFrags == 2
\* largest max_agent_turns of the configuration a message is handled under
MaxAgentTurns == 1

\* ----------------------------------------------------------------- helpers
Last(s) == s[Len(s)]

Range(s) == {s[i] : i \in 1..Len(s)}

\* position following k in rotation order over n keys (positions are 1..n)
SuccKey(k, n) == (k % n) + 1

\* ------------------------------------------------------------ provider types
\* ProviderError variants
ErrorKinds == {"RateLimited", "AuthError", "RequestError", "ParseError", "NoKeys"}

\* placeholder for "no response" in results that carry an error
NoResp == [content |-> <<>>, tool_calls |-> <<>>]

OkResult(r) == [ok |-> TRUE, kind |-> "Ok", msg |-> "", resp |-> r]

ErrResult(k, m) == [ok |-> FALSE, kind |-> k, msg |-> m, resp |-> NoResp]

\* placeholder for "no result yet"
NoResult == [ok |-> FALSE, kind |-> "Pending", msg |-> "", resp |-> NoResp]

\* HTTP status codes the provider client singles out
StatusTooManyRequests == 429
StatusUnauthorized == 401

\* a success test that knows 200 only
IsSuccessOnlyOk(status) == status = 200

\* status.is_success(): 2xx
IsSuccess(status) == status \in 200..299

\* statuses the API is taken to answer with
SampleStatuses == {200, StatusUnauthorized, StatusTooManyRequests, 500}

\* One exchange with the API as the client sees it: the transport failed, or
\* a status arrived with a body that decodes to a response or does not.
TransportFailure == [transport |-> FALSE, status |-> 0, decodes |-> FALSE, resp |-> NoResp]

HttpReply(st, dec, r) == [transport |-> TRUE, status |-> st, decodes |-> dec, resp |-> r]

Exchanges(Resps) ==
    {TransportFailure}
        \cup {HttpReply(st, FALSE, NoResp) : st \in SampleStatuses}
        \cup {HttpReply(st, TRUE, r) : st \in {c \in SampleStatuses : IsSuccess(c)},
                                       r \in Resps}

\* parse_claude_response: a body that does not decode is a ParseError
ParseClaudeResponse(x) ==
    IF x.decodes THEN OkResult(x.resp) ELSE ErrResult("ParseError", "decode")

\* ClaudeProvider::chat: the result of one exchange
ClaudeChat(x) ==
    IF ~x.transport THEN ErrResult("RequestError", "transport")
    ELSE IF x.status = StatusTooManyRequests THEN ErrResult("RateLimited", "")
    ELSE IF x.status = StatusUnauthorized THEN ErrResult("AuthError", "Invalid API key")
    ELSE IF ~IsSuccess(x.status) THEN ErrResult("RequestError", "HTTP")
    ELSE ParseClaudeResponse(x)

\* ------------------------------------------------------------------- state
VARIABLES
    nkeys,      \* KeyPool.keys.len(); key i is the key at position i (1..nkeys)
    index,      \* KeyPool.index, the shared rotation cursor
    cpc,        \* per caller: position inside chat(): idle | loop | await | done
    attempt,    \* per caller: _attempt of the for loop in chat()
    tried,      \* per caller: key positions attempted in the current call, in order
    outcomes,   \* per caller: result kind of each attempt of the current call
    cres,       \* per caller: result of the last finished chat() call
    ncalls,     \* per caller: chat() calls started
    startIdx,   \* per caller: cursor position (mod nkeys) when the call started
    prevLast,   \* last key attempted by the most recently finished call (0: none)
    logged,     \* the line ProviderPool wrote to the log last
    rpc,        \* AgentLoop::run: start | head | in_chat | tools | in_extract |
                \*   returned | failed | panicked
    max_turns,  \* run's max_turns argument
    turn,       \* run's loop variable
    messages,   \* run's message list
    tools_used, \* run's tools_used
    last_provider, \* run's last_provider
    pending,    \* response.tool_calls of the turn being executed
    tcIdx,      \* position in pending of the tool call being executed
    result,     \* what run returned
    progress,   \* the on_progress events emitted so far, in order
    modelCalls, \* pool.chat calls the loop itself has issued
    responses,  \* the responses those calls returned, in order
    arg,        \* the argument of the pure function being evaluated
    acc,        \* that function's locals (its accumulator or result)
    fpc,        \* that function's position
    hpc,        \* run_agent_and_respond_inner: none | load | run | clean |
                \*   replied | unwound
    session_messages, \* the rows of the user's session in the database
    raw_history,      \* the handler's raw_history
    reply,      \* what the handler put in the chat: <<>> or <<kind, text>>
    now,        \* on_progress: the clock reading of its latest invocation
    last_edit,  \* on_progress: last_edit, the reading at the latest dispatch
    edits,      \* the texts of the spawned safe_edit tasks still in flight
    shown       \* the text of the progress message as the chat shows it

poolVars == <<nkeys, index, cpc, attempt, tried, outcomes, cres, ncalls, startIdx,
              prevLast, logged>>

loopVars == <<rpc, max_turns, turn, messages, tools_used, last_provider, pending,
              tcIdx, result, progress, modelCalls, responses>>

fnVars == <<arg, acc, fpc>>

\* the handler's progress callback and its side channel
cbVars == <<now, last_edit, edits, shown>>

turnVars == <<hpc, session_messages, raw_history, reply, cbVars>>

vars == <<poolVars, loopVars, fnVars, turnVars>>

Procs == 1..NumProcs

\* ---------------------------------------------------------------- KeyPool
\* KeyPool::len
KeyPoolLen == nkeys

\* a next_key() that clamps the cursor to the last key instead of wrapping
NextKeyClamped(idx, n) == IF n = 0 THEN 0 ELSE IF idx < n THEN idx + 1 ELSE n

\* KeyPool::next_key: the key position fetch_add's old value selects
\* (0 stands for None, when the key list is empty)
NextKeyOf(idx, n) == IF n = 0 THEN 0 ELSE (idx % n) + 1

\* a cursor that next_key() reads without advancing
FetchAddStuck(idx) == idx

\* a cursor that moves on by two
FetchAddTwo(idx) == idx + 2

\* a cursor that moves back by one
FetchSub(idx) == (idx + 2 ^ CursorBits - 1) % (2 ^ CursorBits)

\* the cursor after fetch_add(1), which wraps around on overflow
FetchAdd(idx) == (idx + 1) % (2 ^ CursorBits)

\* the keys handed to ProviderPool::new, as byte strings; a pool of n keys
\* holds the first n of them (the list starts over after the last)
SampleKeys ==
    << <<"s", "k", "-", "a", "n", "t", "-", "a", "p", "i", "0", "3">>,
       <<"s", "k", "-", "l", "o", "c", "a", "l", "-", "1">>,
       <<"t", "e", "s", "t">> >>

\* KeyPool.keys[idx], for the position idx + 1
KeyAt(pos) == SampleKeys[((pos - 1) % Len(SampleKeys)) + 1]

\* ------------------------------------------------------------ ProviderPool
\* the bytes of a key that chat() puts in a log line
KeyPreviewLen == 10

\* &key[..key.len().min(10)]
KeyPreview(key) ==
    SubSeq(key, 1, IF Len(key) < KeyPreviewLen THEN Len(key) ELSE KeyPreviewLen)

\* a log line: its fixed text and the key text formatted into it (<<>> is
\* a line without a key)
LogLine(text, key) == [text |-> text, key |-> key]

\* the error chat() returns after the for loop ran out of attempts
ExhaustedError == ErrResult("RequestError", "All Claude keys exhausted")

\* a match that also retries request errors
IsRetryableWide(r) == r.kind \in {"RateLimited", "RequestError"}

\* a match without the arm that continues
IsRetryableNever(r) == FALSE

\* the match arm of chat() that continues with the next key
IsRetryable(r) == r.kind = "RateLimited"

\* a chat() without the empty check
PoolIsEmptyNever == FALSE

\* chat(): the num_keys == 0 check at entry
PoolIsEmpty == KeyPoolLen = 0

\* a call ends: its result is stored and remembered as the previous call
FinishCall(p, r, tr) ==
    /\ cpc' = [cpc EXCEPT ![p] = "done"]
    /\ cres' = [cres EXCEPT ![p] = r]
    /\ prevLast' = IF tr = <<>> THEN prevLast ELSE Last(tr)

\* chat(): entry, the num_keys == 0 check
ChatBegin(p) ==
    /\ ncalls' = [ncalls EXCEPT ![p] = @ + 1]
    /\ tried' = [tried EXCEPT ![p] = <<>>]
    /\ outcomes' = [outcomes EXCEPT ![p] = <<>>]
    /\ attempt' = [attempt EXCEPT ![p] = 0]
    /\ startIdx' = [startIdx EXCEPT ![p] = NextKeyOf(index, nkeys)]
    /\ IF PoolIsEmpty
         THEN FinishCall(p, ErrResult("NoKeys", "No available keys"), <<>>)
         ELSE /\ cpc' = [cpc EXCEPT ![p] = "loop"]
              /\ UNCHANGED <<cres, prevLast>>
    /\ UNCHANGED <<nkeys, index, logged>>

\* chat(): the head of the for loop. While attempts remain, next_key() takes
\* the cursor value atomically and advances it, and the provider call starts;
\* when the range 0..num_keys is used up the call ends with the exhausted error.
ChatNextKey(p) ==
    /\ cpc[p] = "loop"
    /\ IF attempt[p] < KeyPoolLen /\ NextKeyOf(index, nkeys) # 0
         THEN /\ tried' = [tried EXCEPT ![p] = Append(@, NextKeyOf(index, nkeys))]
              /\ index' = FetchAdd(index)
              /\ logged' = LogLine("Trying Claude",
                                   KeyPreview(KeyAt(NextKeyOf(index, nkeys))))
              /\ cpc' = [cpc EXCEPT ![p] = "await"]
              /\ UNCHANGED <<cres, prevLast>>
         ELSE /\ FinishCall(p, ExhaustedError, tried[p])
              /\ UNCHANGED <<tried, index, logged>>
    /\ UNCHANGED <<nkeys, attempt, outcomes, ncalls, startIdx>>

\* chat(): the provider call returns and the match on its result
ChatReply(p, x) ==
    /\ cpc[p] = "await"
    /\ LET r == ClaudeChat(x) IN
        /\ outcomes' = [outcomes EXCEPT ![p] = Append(@, r.kind)]
        /\ IF r.ok
             THEN /\ logged' = LogLine("Claude succeeded", <<>>)
                  /\ FinishCall(p, r, tried[p])
                  /\ UNCHANGED attempt
             ELSE IF IsRetryable(r)
             THEN /\ logged' = LogLine("Claude RATE LIMITED",
                                       KeyPreview(KeyAt(Last(tried[p]))))
                  /\ attempt' = [attempt EXCEPT ![p] = @ + 1]
                  /\ cpc' = [cpc EXCEPT ![p] = "loop"]
                  /\ UNCHANGED <<cres, prevLast>>
             ELSE /\ logged' = LogLine("Claude FAILED",
                                       KeyPreview(KeyAt(Last(tried[p]))))
                  /\ FinishCall(p, r, tried[p])
                  /\ UNCHANGED attempt
    /\ UNCHANGED <<nkeys, index, tried, ncalls, startIdx>>

\* ------------------------------------------------------------ message model
\* Option<String>: <<>> is None, <<t>> is Some(t)
None == <<>>

Some(t) == <<t>>

\* MessageContent::Text under a role
TextMsg(role, t) ==
    [role |-> role, variant |-> "Text", text |-> Some(t), calls |-> <<>>,
     tool_call_id |-> "", name |-> ""]

\* an Assistant message that keeps the tool calls and drops the text
AssistantWithToolCallsOnly(text, calls) ==
    [role |-> "Assistant", variant |-> "AssistantWithToolCalls", text |-> <<>>,
     calls |-> calls, tool_call_id |-> "", name |-> ""]

\* MessageContent::AssistantWithToolCalls under Role::Assistant
AssistantWithToolCalls(text, calls) ==
    [role |-> "Assistant", variant |-> "AssistantWithToolCalls", text |-> text,
     calls |-> calls, tool_call_id |-> "", name |-> ""]

\* MessageContent::ToolResult under Role::Tool
ToolResultMsg(id, name, content) ==
    [role |-> "Tool", variant |-> "ToolResult", text |-> Some(content), calls |-> <<>>,
     tool_call_id |-> id, name |-> name]

\* MessageContent::as_text
AsText(m) ==
    IF m.variant = "AssistantWithToolCalls"
      THEN (IF m.text = None THEN "" ELSE m.text[1])
      ELSE m.text[1]

\* ---------------------------------------------------------------- strings
\* A string as far as byte slicing sees it: a ASCII bytes followed by n
\* characters of w bytes each.
Str(a, n, w) == [a |-> a, n |-> n, w |-> w]

EmptyStr == Str(0, 0, 1)

Bytes(s) == s.a + s.n * s.w

\* str::is_char_boundary(at), for at <= Bytes(s)
IsCharBoundary(s, at) == at <= s.a \/ at = Bytes(s) \/ (at - s.a) % s.w = 0

\* &s[..at] panics when at is past the end or inside a character
SlicePanics(s, at) == at > Bytes(s) \/ ~IsCharBoundary(s, at)

\* ------------------------------------------------------------------ tools
\* entity_extractor.rs: text.len() > 3000 { &text[..3000] }
ExtractTruncateLimit == 3000

\* system.rs: MAX_OUTPUT
MaxOutput == 30000

\* the arguments of a tool call: json is FALSE when the argument string is
\* not valid JSON (serde_json::from_str(..).unwrap_or_default() is then Null
\* and every field reads as its default); a is the first string argument
\* (fact, command, title) and b the second (content)
Args(json, a, b) == [json |-> json, a |-> a, b |-> b]

\* args[..].as_str().unwrap_or("")
ArgA(args) == IF args.json THEN args.a ELSE EmptyStr

ArgB(args) == IF args.json THEN args.b ELSE EmptyStr

ToolCall(id, name, args) == [id |-> id, name |-> name, args |-> args]

\* what the world answers to a tool: whether the store call succeeds and
\* what a spawned command prints
Env(db_ok, out) == [db_ok |-> db_ok, out |-> out]

TextOut(t) == [kind |-> "text", text |-> t]

Panic == [kind |-> "panic", text |-> ""]

\* knowledge_save went through and entity extraction calls the pool
NeedsExtract == [kind |-> "extract", text |-> "Saved document"]

\* truncate_output
TruncateOutput(s) ==
    IF Bytes(s) > MaxOutput
      THEN (IF SlicePanics(s, MaxOutput) THEN Panic ELSE TextOut("output (truncated)"))
      ELSE TextOut("output")

\* bash_exec
BashExec(command, e) ==
    IF Bytes(command) = 0 THEN TextOut("Error: command cannot be empty")
    ELSE TruncateOutput(e.out)

\* memory_save
MemorySave(fact, e) ==
    IF Bytes(fact) = 0 THEN TextOut("Error: fact cannot be empty")
    ELSE IF e.db_ok THEN TextOut("Saved") ELSE TextOut("Error saving")

\* knowledge_save: Err when a field is empty or the store fails
KnowledgeSaveOk(title, content, e) ==
    Bytes(title) # 0 /\ Bytes(content) # 0 /\ e.db_ok

\* format!("{title}\n\n{content}") for an ASCII title
DocText(title, content) == Str(title.a + 2 + content.a, content.n, content.w)

\* extract_and_link_entities up to its pool.chat call: the truncation
ExtractTruncatePanics(text) ==
    Bytes(text) > ExtractTruncateLimit /\ SlicePanics(text, ExtractTruncateLimit)

\* the knowledge_save arm of execute up to the pool.chat call
KnowledgeSaveArm(args, e) ==
    IF ~KnowledgeSaveOk(ArgA(args), ArgB(args), e)
      THEN (IF Bytes(ArgA(args)) = 0 \/ Bytes(ArgB(args)) = 0
              THEN TextOut("Error: Title and content are required")
              ELSE TextOut("Error: store"))
    ELSE IF ExtractTruncatePanics(DocText(ArgA(args), ArgB(args))) THEN Panic
    ELSE NeedsExtract

\* ToolRegistry::execute, up to a pool.chat call if the tool makes one
Execute(name, args, e) ==
    CASE name = "memory_save" -> MemorySave(ArgA(args), e)
      [] name = "knowledge_save" -> KnowledgeSaveArm(args, e)
      [] name = "bash" -> BashExec(ArgA(args), e)
      [] OTHER -> TextOut("Unknown tool")

\* parse_entities(..).len() on the extraction response text
ParseEntitiesCount(t) == IF t = "entities2" THEN 2 ELSE 0

\* extract_and_link_entities after its pool.chat call: the count returned
ExtractCount(r) ==
    IF ~r.ok THEN 0
    ELSE IF r.resp.content = None THEN 0
    ELSE ParseEntitiesCount(r.resp.content[1])

\* the knowledge_save arm of execute after extraction
KnowledgeSaveText(count) ==
    IF count > 0 THEN "Saved document; Extracted entities" ELSE "Saved document"

\* ---------------------------------------------------------- inputs of a run
Ascii(n) == Str(n, 0, 1)

MalformedArgs == Args(FALSE, EmptyStr, EmptyStr)

TcUnknown(id) == ToolCall(id, "frobnicate", Args(TRUE, EmptyStr, EmptyStr))

TcBashMalformed(id) == ToolCall(id, "bash", MalformedArgs)

TcBash(id) == ToolCall(id, "bash", Args(TRUE, Ascii(2), EmptyStr))

TcMemorySave(id) == ToolCall(id, "memory_save", Args(TRUE, Ascii(4), EmptyStr))

\* a short document
TcKnowledgeShort(id) == ToolCall(id, "knowledge_save", Args(TRUE, Ascii(5), Ascii(40)))

\* a document of 1000 three-byte characters under a two-byte title: byte
\* 3000 of "{title}\n\n{content}" falls inside a character
TcKnowledgeLong(id) == ToolCall(id, "knowledge_save", Args(TRUE, Ascii(2), Str(0, 1000, 3)))

\* the same document under a one-byte title: byte 3000 is a boundary
TcKnowledgeLongAligned(id) ==
    ToolCall(id, "knowledge_save", Args(TRUE, Ascii(1), Str(0, 1000, 3)))

Resp(content, calls) == [content |-> content, tool_calls |-> calls]

\* responses the model may give to the loop
FinalResps == {Resp(None, <<>>), Resp(Some("answer"), <<>>)}

ToolResps ==
    { Resp(Some("r1"), <<TcUnknown("t1")>>),
      Resp(None, <<TcBashMalformed("t1"), TcKnowledgeShort("t2")>>),
      Resp(Some(""), <<TcKnowledgeLongAligned("t1"), TcKnowledgeLong("t2")>>),
      Resp(Some("r2"), <<TcBash("t1"), TcMemorySave("t2"), TcBashMalformed("t3")>>) }

LoopResps == FinalResps \cup ToolResps

\* responses the model may give to entity extraction
ExtractResps == {Resp(None, <<>>), Resp(Some("[]"), <<>>), Resp(Some("entities2"), <<>>)}

\* what a command may print: a short text, a long ASCII text, a long text
\* whose byte MaxOutput falls inside a character
CommandOutputs == {Ascii(10), Ascii(MaxOutput + 1), Str(1, 10001, 3)}

\* the environments that differ for a tool call
ToolEnvs(tc) ==
    CASE tc.name = "bash" /\ Bytes(ArgA(tc.args)) # 0 ->
             {Env(TRUE, o) : o \in CommandOutputs}
      [] tc.name \in {"memory_save", "knowledge_save"} /\ Bytes(ArgA(tc.args)) # 0 ->
             {Env(ok, EmptyStr) : ok \in BOOLEAN}
      [] OTHER -> {Env(TRUE, EmptyStr)}

\* conversation histories handed to run
Histories ==
    { <<>>,
      <<TextMsg("User", "q0"), TextMsg("Assistant", "a0")>> }

SystemPrompt == "sys"

UserContent == TextMsg("User", "q")

\* ------------------------------------------------------------- AgentResult
MaxTurnsFallback == "Reached max processing limit. Please try again."

\* the bytes of the tool names that occur in a run
NameBytes(n) ==
    CASE n = "bash" -> <<98, 97, 115, 104>>
      [] n = "frobnicate" -> <<102, 114, 111, 98, 110, 105, 99, 97, 116, 101>>
      [] n = "knowledge_save" ->
             <<107, 110, 111, 119, 108, 101, 100, 103, 101, 95, 115, 97, 118, 101>>
      [] n = "memory_save" -> <<109, 101, 109, 111, 114, 121, 95, 115, 97, 118, 101>>

\* Ord for str: byte-wise lexicographic comparison, a proper prefix first
RECURSIVE BytesLess(_, _)
BytesLess(a, b) ==
    IF b = <<>> THEN FALSE
    ELSE IF a = <<>> THEN TRUE
    ELSE IF a[1] # b[1] THEN a[1] < b[1]
    ELSE BytesLess(Tail(a), Tail(b))

StrLess(m, n) == BytesLess(NameBytes(m), NameBytes(n))

\* tool names in lexicographic order (the order of BTreeMap<&str, _> keys)
NameOrder == SortSeq(<<"memory_save", "knowledge_save", "frobnicate", "bash">>, StrLess)

\* a summary that lists the names in order of first use
RECURSIVE FirstUseNames(_)
FirstUseNames(tools) ==
    IF tools = <<>> THEN <<>>
    ELSE LET init == SubSeq(tools, 1, Len(tools) - 1)
             rest == FirstUseNames(init)
         IN  IF Last(tools) \in Range(init) THEN rest ELSE Append(rest, Last(tools))

Count(tools, n) == Cardinality({i \in 1..Len(tools) : tools[i] = n})

\* dedup_with_counts: (names, counts)
DedupNames(tools) == SelectSeq(NameOrder, LAMBDA n : n \in Range(tools))

DedupCounts(tools) ==
    [i \in 1..Len(DedupNames(tools)) |-> Count(tools, DedupNames(tools)[i])]

\* a result that leaves the provider out
AgentOkNoProvider(resp, tools, prov, turns) ==
    [ok |-> TRUE, response |-> resp, tools_used |-> DedupNames(tools),
     tools_count |-> DedupCounts(tools), provider |-> "", turns |-> turns,
     err |-> <<>>]

AgentOk(resp, tools, prov, turns) ==
    [ok |-> TRUE, response |-> resp, tools_used |-> DedupNames(tools),
     tools_count |-> DedupCounts(tools), provider |-> prov, turns |-> turns,
     err |-> <<>>]

\* Err(format!("LLM error: {e}"))
AgentErr(e) ==
    [ok |-> FALSE, response |-> "", tools_used |-> <<>>, tools_count |-> <<>>,
     provider |-> "", turns |-> 0, err |-> <<"LLM error", e.kind, e.msg>>]

NoAgentResult ==
    [ok |-> FALSE, response |-> "", tools_used |-> <<>>, tools_count |-> <<>>,
     provider |-> "", turns |-> 0, err |-> <<"Pending">>]

\* a scan that runs forward and stops at the oldest Assistant message
LastAssistantTextForward(msgs) ==
    LET idxs == {i \in 1..Len(msgs) : msgs[i].role = "Assistant"} IN
    IF idxs = {} THEN MaxTurnsFallback
    ELSE AsText(msgs[CHOOSE i \in idxs : \A j \in idxs : i <= j])

\* messages.iter().rev().find(|m| m.role == Assistant).map(as_text)
\*     .unwrap_or_else(fallback)
LastAssistantText(msgs) ==
    LET idxs == {i \in 1..Len(msgs) : msgs[i].role = "Assistant"} IN
    IF idxs = {} THEN MaxTurnsFallback
    ELSE AsText(msgs[CHOOSE i \in idxs : \A j \in idxs : j <= i])

\* an unwrap that substitutes the max-turns fallback for a missing text
UnwrapOrFallback(opt) == IF opt = None THEN MaxTurnsFallback ELSE opt[1]

\* Option<String>::unwrap_or_default
UnwrapOrDefault(opt) == IF opt = None THEN "" ELSE opt[1]

\* AgentProgress
Thinking == <<"Thinking">>

\* a ToolUse event that does not carry the name
ToolUseUnnamed(name) == <<"ToolUse", "">>

ToolUse(name) == <<"ToolUse", name>>

\* --------------------------------------------------------- AgentLoop::run
\* the caller id under which run uses the pool
Runner == 1

\* ------------------------------------------------------- progress callback
\* the least time in milliseconds between two dispatched edits
MinEditInterval == 1500

\* a reading of the system clock in milliseconds since the epoch
ClockBase == 100000

\* the readings on_progress may take, the last one before the interval is
\* over and the first one after it among them
ClockReadings == {ClockBase, ClockBase + MinEditInterval - 1,
                  ClockBase + MinEditInterval}

\* the text send_message puts in the progress message
InitialProgressText == <<"Thinking...">>

\* formatter::tool_icon
ToolIcon(name) ==
    CASE name = "bash" -> "computer"
      [] name \in {"memory_save", "memory_search", "memory_list", "memory_delete"} -> "brain"
      [] name \in {"knowledge_save", "knowledge_search"} -> "books"
      [] OTHER -> "wrench"

\* formatter::format_progress
FormatProgress(name) == <<"hourglass", ToolIcon(name), "Dang dung", name>>

\* on_progress: the match on the event
DisplayText(ev) == IF ev[1] = "ToolUse" THEN FormatProgress(ev[2]) ELSE <<"Thinking...">>

\* a throttle that lets every update through
IsThrottledNever(t, prev) == FALSE

\* on_progress: now - prev < 1500
IsThrottled(t, prev) == t - prev < MinEditInterval

\* the handler creates last_edit and sends the progress message
CallbackInit ==
    /\ now = 0
    /\ last_edit = 0
    /\ edits = <<>>
    /\ shown = InitialProgressText

\* on_progress, the closure of run_agent_and_respond_inner: the clock is
\* read; an update inside the interval returns at once; otherwise last_edit
\* is stored and the edit is spawned, and the closure returns without
\* awaiting the task
OnProgress(ev) ==
    \E t \in ClockReadings :
        /\ t >= now
        /\ now' = t
        /\ IF IsThrottled(t, last_edit)
             THEN UNCHANGED <<last_edit, edits>>
             ELSE /\ last_edit' = t
                  /\ edits' = Append(edits, DisplayText(ev))
        /\ UNCHANGED shown

\* run calls the F it was given: the handler's closure when the handler made
\* the call, a callback without effect for a run on its own
CallOnProgress(ev) == IF hpc = "run" THEN OnProgress(ev) ELSE UNCHANGED cbVars

\* a spawned safe_edit task finishes: the progress message shows its text
EditCompletes(i) ==
    /\ i \in 1..Len(edits)
    /\ shown' = edits[i]
    /\ edits' = SubSeq(edits, 1, i - 1) \o SubSeq(edits, i + 1, Len(edits))
    /\ UNCHANGED <<now, last_edit, hpc, session_messages, raw_history, reply>>
    /\ UNCHANGED <<poolVars, loopVars, fnVars>>

\* run: the message list is built
RunStart(history) ==
    /\ rpc = "start"
    /\ messages' = <<TextMsg("System", SystemPrompt)>> \o history \o <<UserContent>>
    /\ rpc' = "head"
    /\ UNCHANGED <<max_turns, turn, tools_used, last_provider, pending, tcIdx, result,
                   progress, modelCalls, responses>>
    /\ UNCHANGED poolVars
    /\ UNCHANGED fnVars
    /\ UNCHANGED turnVars

\* a loop without a turn budget
HasTurnAlways == TRUE

\* the for loop still has a turn to run
HasTurn == turn < max_turns

\* run: head of the for loop: with a turn left, emit Thinking and call the
\* pool; otherwise return the max-turns result
RunHead ==
    /\ rpc = "head"
    /\ IF HasTurn
         THEN /\ progress' = Append(progress, Thinking)
              /\ CallOnProgress(Thinking)
              /\ modelCalls' = modelCalls + 1
              /\ rpc' = "in_chat"
              /\ ChatBegin(Runner)
              /\ UNCHANGED result
         ELSE /\ result' = AgentOk(LastAssistantText(messages), tools_used,
                                   last_provider, max_turns)
              /\ rpc' = "returned"
              /\ UNCHANGED <<progress, modelCalls>>
              /\ UNCHANGED cbVars
              /\ UNCHANGED poolVars
    /\ UNCHANGED <<max_turns, turn, messages, tools_used, last_provider, pending, tcIdx,
                   responses>>
    /\ UNCHANGED fnVars
    /\ UNCHANGED <<hpc, session_messages, raw_history, reply>>

\* a loop that goes on after a failed pool.chat
AbortsOnErrorNever(r) == FALSE

\* the turn loop acts on a failed pool.chat: map_err(..)? returns the error
AbortsOnError(r) == ~r.ok

\* pool.chat has returned to its caller inside run: the call's locals are gone
ChatReturned ==
    /\ cpc' = [cpc EXCEPT ![Runner] = "idle"]
    /\ cres' = [cres EXCEPT ![Runner] = NoResult]
    /\ attempt' = [attempt EXCEPT ![Runner] = 0]
    /\ tried' = [tried EXCEPT ![Runner] = <<>>]
    /\ outcomes' = [outcomes EXCEPT ![Runner] = <<>>]
    /\ startIdx' = [startIdx EXCEPT ![Runner] = 0]
    /\ UNCHANGED <<nkeys, index, ncalls, prevLast, logged>>

\* run: pool.chat returned to the loop
RunAfterChat ==
    /\ rpc = "in_chat"
    /\ cpc[Runner] = "done"
    /\ LET r == cres[Runner] IN
        IF AbortsOnError(r)
          THEN /\ result' = AgentErr(r)
               /\ rpc' = "failed"
               /\ UNCHANGED <<messages, last_provider, pending, tcIdx, responses>>
          ELSE /\ responses' = Append(responses, r.resp)
               /\ last_provider' = "claude"
               /\ IF r.resp.tool_calls = <<>>
                    THEN /\ result' = AgentOk(UnwrapOrDefault(r.resp.content),
                                              tools_used, "claude", turn + 1)
                         /\ rpc' = "returned"
                         /\ UNCHANGED <<messages, pending, tcIdx>>
                    ELSE /\ messages' = Append(messages,
                                 AssistantWithToolCalls(r.resp.content, r.resp.tool_calls))
                         /\ pending' = r.resp.tool_calls
                         /\ tcIdx' = 1
                         /\ rpc' = "tools"
                         /\ UNCHANGED result
    /\ UNCHANGED <<max_turns, turn, tools_used, progress, modelCalls>>
    /\ UNCHANGED fnVars
    /\ UNCHANGED turnVars
    /\ ChatReturned

\* a push that puts the Tool message in the place of the last message
PushToolResultInPlace(text) ==
    /\ messages' = [messages EXCEPT ![Len(messages)] =
            ToolResultMsg(pending[tcIdx].id, pending[tcIdx].name, text)]
    /\ IF tcIdx < Len(pending)
         THEN /\ tcIdx' = tcIdx + 1
              /\ rpc' = "tools"
              /\ UNCHANGED <<turn, pending>>
         ELSE /\ tcIdx' = 0
              /\ pending' = <<>>
              /\ turn' = turn + 1
              /\ rpc' = "head"

\* run: the Tool message of the current call is pushed; the inner for loop
\* moves to the next call, or the turn ends
PushToolResult(text) ==
    /\ messages' = Append(messages,
            ToolResultMsg(pending[tcIdx].id, pending[tcIdx].name, text))
    /\ IF tcIdx < Len(pending)
         THEN /\ tcIdx' = tcIdx + 1
              /\ rpc' = "tools"
              /\ UNCHANGED <<turn, pending>>
         ELSE /\ tcIdx' = 0
              /\ pending' = <<>>
              /\ turn' = turn + 1
              /\ rpc' = "head"

\* run: one tool call: tools_used, the ToolUse event, ToolRegistry::execute
RunTool(e) ==
    /\ rpc = "tools"
    /\ e \in ToolEnvs(pending[tcIdx])
    /\ tools_used' = Append(tools_used, pending[tcIdx].name)
    /\ progress' = Append(progress, ToolUse(pending[tcIdx].name))
    /\ CallOnProgress(ToolUse(pending[tcIdx].name))
    /\ LET r == Execute(pending[tcIdx].name, pending[tcIdx].args, e) IN
        CASE r.kind = "panic" ->
                 /\ rpc' = "panicked"
                 /\ UNCHANGED <<messages, tcIdx, pending, turn>>
                 /\ UNCHANGED poolVars
          [] r.kind = "extract" ->
                 /\ rpc' = "in_extract"
                 /\ ChatBegin(Runner)
                 /\ UNCHANGED <<messages, tcIdx, pending, turn>>
          [] OTHER ->
                 /\ PushToolResult(r.text)
                 /\ UNCHANGED poolVars
    /\ UNCHANGED <<max_turns, last_provider, result, modelCalls, responses>>
    /\ UNCHANGED fnVars
    /\ UNCHANGED <<hpc, session_messages, raw_history, reply>>

\* run: pool.chat returned to entity extraction inside knowledge_save
RunAfterExtract ==
    /\ rpc = "in_extract"
    /\ cpc[Runner] = "done"
    /\ PushToolResult(KnowledgeSaveText(ExtractCount(cres[Runner])))
    /\ UNCHANGED <<max_turns, tools_used, last_provider, result, progress, modelCalls,
                   responses>>
    /\ UNCHANGED fnVars
    /\ UNCHANGED turnVars
    /\ ChatReturned

\* the pool's steps while run is inside chat()
RunChatNextKey ==
    /\ rpc \in {"in_chat", "in_extract"}
    /\ ChatNextKey(Runner)
    /\ UNCHANGED <<loopVars, fnVars, turnVars>>

RunChatReply(x) ==
    /\ rpc \in {"in_chat", "in_extract"}
    /\ x \in (IF rpc = "in_chat" THEN Exchanges(LoopResps) ELSE Exchanges(ExtractResps))
    /\ ChatReply(Runner, x)
    /\ UNCHANGED <<loopVars, fnVars, turnVars>>

\* ------------------------------------------------- callers of the pool alone
\* a caller (a turn handler, a tool) enters chat()
CallChat(p, maxCalls) ==
    /\ cpc[p] \in {"idle", "done"}
    /\ ncalls[p] < maxCalls
    /\ ChatBegin(p)
    /\ UNCHANGED <<loopVars, fnVars, turnVars>>

PoolNextKey(p) == ChatNextKey(p) /\ UNCHANGED <<loopVars, fnVars, turnVars>>

PoolReply(p, x) == ChatReply(p, x) /\ UNCHANGED <<loopVars, fnVars, turnVars>>

PoolInit(maxKeys) ==
    /\ nkeys \in 0..maxKeys
    /\ index = 0
    /\ cpc = [p \in Procs |-> "idle"]
    /\ attempt = [p \in Procs |-> 0]
    /\ tried = [p \in Procs |-> <<>>]
    /\ outcomes = [p \in Procs |-> <<>>]
    /\ cres = [p \in Procs |-> NoResult]
    /\ ncalls = [p \in Procs |-> 0]
    /\ startIdx = [p \in Procs |-> 0]
    /\ prevLast = 0
    /\ logged = LogLine("Provider pool: Claude with keys", <<>>)

\* no run in progress
LoopIdle ==
    /\ rpc = "none"
    /\ max_turns = 0
    /\ turn = 0
    /\ messages = <<>>
    /\ tools_used = <<>>
    /\ last_provider = ""
    /\ pending = <<>>
    /\ tcIdx = 0
    /\ result = NoAgentResult
    /\ progress = <<>>
    /\ modelCalls = 0
    /\ responses = <<>>

\* no pure function under evaluation
FnIdle ==
    /\ arg = <<>>
    /\ acc = <<>>
    /\ fpc = "none"

\* no message being handled
TurnIdle ==
    /\ hpc = "none"
    /\ session_messages = <<>>
    /\ raw_history = <<>>
    /\ reply = <<>>
    /\ CallbackInit

PoolExchanges == Exchanges({NoResp})

\* one caller, calls one after the other
InitSeq == PoolInit(MaxKeys) /\ LoopIdle /\ FnIdle /\ TurnIdle

NextSeq ==
    \/ CallChat(1, MaxSeqCalls)
    \/ PoolNextKey(1)
    \/ \E x \in PoolExchanges : PoolReply(1, x)

SpecSeq == InitSeq /\ [][NextSeq]_vars

\* one caller, calls one after the other, on a pool that has served any
\* number of next_key() calls before
InitWrap ==
    /\ nkeys \in 0..MaxKeys
    /\ index \in 0..(2 ^ CursorBits - 1)
    /\ cpc = [p \in Procs |-> "idle"]
    /\ attempt = [p \in Procs |-> 0]
    /\ tried = [p \in Procs |-> <<>>]
    /\ outcomes = [p \in Procs |-> <<>>]
    /\ cres = [p \in Procs |-> NoResult]
    /\ ncalls = [p \in Procs |-> 0]
    /\ startIdx = [p \in Procs |-> 0]
    /\ prevLast = 0
    /\ logged = LogLine("Provider pool: Claude with keys", <<>>)
    /\ LoopIdle /\ FnIdle /\ TurnIdle

SpecWrap == InitWrap /\ [][NextSeq]_vars

\* the exchanges of SpecConc: a 429 and a good answer
ConcExchanges ==
    {HttpReply(StatusTooManyRequests, FALSE, NoResp),
     HttpReply(200, TRUE, NoResp)}

\* NumProcs callers with one chat() call each, interleaved at the cursor
\* update and at the provider call
InitConc == PoolInit(MaxConcKeys) /\ LoopIdle /\ FnIdle /\ TurnIdle

NextConc ==
    \/ \E p \in Procs : CallChat(p, 1)
    \/ \E p \in Procs : PoolNextKey(p)
    \/ \E p \in Procs, x \in ConcExchanges : PoolReply(p, x)

SpecConc == InitConc /\ [][NextConc]_vars

\* the same callers while every key is rate limited: each call goes through
\* the whole key list, the most next_key() calls a call makes (a caller whose
\* call ended earlier takes no further step at the cursor)
NextCursor ==
    \/ \E p \in Procs : CallChat(p, 1)
    \/ \E p \in Procs : PoolNextKey(p)
    \/ \E p \in Procs : PoolReply(p, HttpReply(StatusTooManyRequests, FALSE, NoResp))

SpecCursor == InitConc /\ [][NextCursor]_vars

\* one AgentLoop::run invocation on a fresh pool
Init ==
    /\ PoolInit(MaxLoopKeys)
    /\ rpc = "start"
    /\ max_turns \in 0..MaxTurns
    /\ turn = 0
    /\ messages = <<>>
    /\ tools_used = <<>>
    /\ last_provider = ""
    /\ pending = <<>>
    /\ tcIdx = 0
    /\ result = NoAgentResult
    /\ progress = <<>>
    /\ modelCalls = 0
    /\ responses = <<>>
    /\ FnIdle
    /\ TurnIdle

Next ==
    \/ \E h \in Histories : RunStart(h)
    \/ RunHead
    \/ RunChatNextKey
    \/ \E x \in Exchanges(LoopResps \cup ExtractResps) : RunChatReply(x)
    \/ RunAfterChat
    \/ \E e \in {Env(ok, o) : ok \in BOOLEAN, o \in CommandOutputs \cup {EmptyStr}} : RunTool(e)
    \/ RunAfterExtract

Spec == Init /\ [][Next]_vars

\* the responses of the model in SpecFair: a final answer, two tool calls of
\* which one saves a document, three tool calls of which two run a command
FairResps ==
    { Resp(Some("answer"), <<>>),
      Resp(None, <<TcBashMalformed("t1"), TcKnowledgeShort("t2")>>),
      Resp(Some("r2"), <<TcBash("t1"), TcMemorySave("t2"), TcBashMalformed("t3")>>) }

\* a run on an empty history
NextFair ==
    \/ RunStart(<<>>)
    \/ RunHead
    \/ RunChatNextKey
    \/ \E x \in Exchanges(FairResps \cup ExtractResps) : RunChatReply(x)
    \/ RunAfterChat
    \/ \E e \in {Env(ok, o) : ok \in BOOLEAN, o \in CommandOutputs \cup {EmptyStr}} : RunTool(e)
    \/ RunAfterExtract

\* a run whose provider calls and tool executions return: whatever step is
\* possible is taken in the end
SpecFair == Init /\ [][NextFair]_vars /\ WF_vars(NextFair)

\* -------------------------------------------------------- protocol adapter
\* MessageContent::ImageWithText under Role::User
ImageMsg(t) ==
    [role |-> "User", variant |-> "ImageWithText", text |-> Some(t), calls |-> <<>>,
     tool_call_id |-> "", name |-> ""]

\* json!({}): the input of a tool call whose arguments do not parse
EmptyObject == Args(TRUE, EmptyStr, EmptyStr)

\* a content block of a wire turn
Block(type, id, name, text, input) ==
    [type |-> type, id |-> id, name |-> name, text |-> text, input |-> input]

TextBlock(t) == Block("text", "", "", t, EmptyObject)

ImageBlock == Block("image", "", "", "", EmptyObject)

\* a tool_use block that carries the arguments whether they parse or not
ToolUseBlockRaw(tc) == Block("tool_use", tc.id, tc.name, "", tc.args)

\* serde_json::from_str(arguments).unwrap_or(json!({}))
ToolUseBlock(tc) ==
    Block("tool_use", tc.id, tc.name, "", IF tc.args.json THEN tc.args ELSE EmptyObject)

ToolResultBlock(id, content) == Block("tool_result", id, "", content, EmptyObject)

\* a wire turn whose content is a string
WireText(role, t) == [role |-> role, is_array |-> FALSE, text |-> t, blocks |-> <<>>]

\* a wire turn whose content is an array of blocks
WireBlocks(role, bs) == [role |-> role, is_array |-> TRUE, text |-> "", blocks |-> bs]

\* the content blocks of an assistant message with tool calls
AssistantBlocks(m) ==
    (IF m.text # None /\ m.text[1] # "" THEN <<TextBlock(m.text[1])>> ELSE <<>>)
        \o [i \in 1..Len(m.calls) |-> ToolUseBlock(m.calls[i])]

\* a merge test that never merges
ShouldMergeNever(api) == FALSE

\* a merge test that accepts every user turn made of blocks
ShouldMergeAnyBlocks(api) ==
    /\ api # <<>>
    /\ Last(api).role = "user"
    /\ Last(api).is_array

\* should_merge: the previous wire turn is a user turn whose content is an
\* array with a tool_result block first
ShouldMerge(api) ==
    /\ api # <<>>
    /\ Last(api).role = "user"
    /\ Last(api).is_array
    /\ Last(api).blocks # <<>>
    /\ Last(api).blocks[1].type = "tool_result"

\* the "\n\n" pushed between two system texts
BlankLine == "[blank line]"

\* String::push_str on a string kept as the list of its non-empty pieces
PushStr(s, t) == IF t = "" THEN s ELSE Append(s, t)

\* the system arm: a blank line if the prompt so far is not empty, then the
\* text
PushSystemText(system_prompt, t) ==
    PushStr(IF system_prompt # <<>> THEN Append(system_prompt, BlankLine)
                                    ELSE system_prompt, t)

\* build_claude_messages: the body of the for loop for one message
BuildStep(system_prompt, api, m) ==
    CASE m.role = "System" /\ m.variant = "Text" ->
             [system_prompt |-> PushSystemText(system_prompt, m.text[1]),
              api_messages |-> api]
      [] m.role = "User" /\ m.variant = "Text" ->
             [system_prompt |-> system_prompt,
              api_messages |-> Append(api, WireText("user", m.text[1]))]
      [] m.role = "User" /\ m.variant = "ImageWithText" ->
             [system_prompt |-> system_prompt,
              api_messages |->
                  Append(api, WireBlocks("user", <<ImageBlock, TextBlock(m.text[1])>>))]
      [] m.role = "Assistant" /\ m.variant = "Text" ->
             [system_prompt |-> system_prompt,
              api_messages |-> Append(api, WireText("assistant", m.text[1]))]
      [] m.role = "Assistant" /\ m.variant = "AssistantWithToolCalls" ->
             [system_prompt |-> system_prompt,
              api_messages |-> Append(api, WireBlocks("assistant", AssistantBlocks(m)))]
      [] m.role = "Tool" /\ m.variant = "ToolResult" ->
             [system_prompt |-> system_prompt,
              api_messages |->
                  IF ShouldMerge(api)
                    THEN [api EXCEPT ![Len(api)].blocks =
                              Append(@, ToolResultBlock(m.tool_call_id, m.text[1]))]
                    ELSE Append(api, WireBlocks("user",
                              <<ToolResultBlock(m.tool_call_id, m.text[1])>>))]
      [] OTHER -> [system_prompt |-> system_prompt, api_messages |-> api]

\* the messages a list handed to the adapter is made of
WireAlphabet ==
    { TextMsg("System", SystemPrompt),
      TextMsg("System", ""),
      TextMsg("User", "u"),
      ImageMsg("caption"),
      TextMsg("Assistant", "a"),
      AssistantWithToolCalls(Some("r1"), <<TcBash("t1")>>),
      AssistantWithToolCalls(Some(""), <<TcBashMalformed("t1"), TcUnknown("t2")>>),
      AssistantWithToolCalls(None, <<TcUnknown("t2"), TcBash("t1")>>),
      ToolResultMsg("t1", "bash", "out1"),
      ToolResultMsg("t2", "frobnicate", "out2") }

SeqsUpTo(A, n) == UNION {[1..k -> A] : k \in 0..n}

WireInputs == SeqsUpTo(WireAlphabet, MaxMsgs)

\* build_claude_messages is entered with a message list
InitWire ==
    /\ PoolInit(0)
    /\ LoopIdle
    /\ TurnIdle
    /\ arg \in WireInputs
    /\ acc = [i |-> 1, system_prompt |-> <<>>, api_messages |-> <<>>]
    /\ fpc = "for"

\* build_claude_messages: one iteration of the for loop
BuildClaudeMessagesStep ==
    /\ fpc = "for"
    /\ acc.i <= Len(arg)
    /\ LET r == BuildStep(acc.system_prompt, acc.api_messages, arg[acc.i]) IN
        acc' = [i |-> acc.i + 1, system_prompt |-> r.system_prompt,
                api_messages |-> r.api_messages]
    /\ UNCHANGED <<arg, fpc>>
    /\ UNCHANGED <<poolVars, loopVars, turnVars>>

\* build_claude_messages(messages): the for loop over the whole list
RECURSIVE BuildClaudeMessages(_)
BuildClaudeMessages(ms) ==
    IF ms = <<>> THEN [system_prompt |-> <<>>, api_messages |-> <<>>]
    ELSE LET r == BuildClaudeMessages(SubSeq(ms, 1, Len(ms) - 1))
         IN  BuildStep(r.system_prompt, r.api_messages, Last(ms))

\* build_claude_messages: the loop is over and the pair is returned
BuildClaudeMessagesReturn ==
    /\ fpc = "for"
    /\ acc.i > Len(arg)
    /\ fpc' = "done"
    /\ UNCHANGED <<arg, acc>>
    /\ UNCHANGED <<poolVars, loopVars, turnVars>>

NextWire == BuildClaudeMessagesStep \/ BuildClaudeMessagesReturn

SpecWire == InitWire /\ [][NextWire]_vars

\* --------------------------------------------------------- provider client
\* the status codes of the five HTTP classes
HttpStatuses == 100..599

\* every outcome of one exchange: no reply at all, or any status with a body
\* that decodes or does not
ClientInputs ==
    {TransportFailure}
        \cup {HttpReply(st, FALSE, NoResp) : st \in HttpStatuses}
        \cup {HttpReply(st, TRUE, r) : st \in HttpStatuses,
                                       r \in {NoResp, Resp(Some("answer"), <<>>)}}

\* ClaudeProvider::chat is about to send the request
InitClient ==
    /\ PoolInit(0)
    /\ LoopIdle
    /\ TurnIdle
    /\ arg \in ClientInputs
    /\ acc = NoResult
    /\ fpc = "send"

\* ClaudeProvider::chat: the exchange takes place and the result is returned
ClientChat ==
    /\ fpc = "send"
    /\ acc' = ClaudeChat(arg)
    /\ fpc' = "done"
    /\ UNCHANGED arg
    /\ UNCHANGED <<poolVars, loopVars, turnVars>>

NextClient == ClientChat

SpecClient == InitClient /\ [][NextClient]_vars

\* -------------------------------------------------------- output sanitizer
\* A text is a sequence of tokens. A token is a piece of text that the
\* sanitizer's searches either match whole or not at all: a marker, a
\* whitespace character, a word.
NL == "\n"

SP == " "

FunctionOpen == "<function="

FunctionClose == "</function>"

ToolCallOpen == "<tool_call>"

ToolCallClose == "</tool_call>"

\* the two halves of an opening marker that does not stand in one piece
FunctionOpenHead == "<func"

FunctionOpenTail == "tion="

ToolCallOpenHead == "<tool_"

ToolCallOpenTail == "call>"

\* the three backquotes that open and close a fenced block
Fence == "[fence]"

\* the two forms of trailing dots removed after </function>
Dots == {"...", "ellipsis"}

\* the language tags of a fence that looks_like_fake_command_output knows
ShellTags == {"bash", "sh", "shell"}

\* a command of the indicators list, as in "$ uptime"
SystemCommand == "uptime"

\* one phrase of action_claims, and the same phrase capitalised
ActionClaim == "ket qua:"

ActionClaimUpper == "KET QUA:"

\* one glyph of listing_patterns
TreeGlyph == "|--"

\* the text substituted when stripping leaves nothing
Apology == "Em khong the tra loi chinh xac"

\* the disclaimer of the fabricated-action check
Warning == "Canh bao: cau tra loi tren co the khong chinh xac"

\* str::to_lowercase on a token
Lower(tok) ==
    CASE tok = "BASH" -> "bash"
      [] tok = ActionClaimUpper -> ActionClaim
      [] OTHER -> tok

IsWhitespace(tok) == tok \in {NL, SP}

\* str::find(tok) in t[from..]: the first position at or after from, 0 for None
Find(t, tok, from) ==
    LET hits == {i \in from..Len(t) : t[i] = tok} IN
    IF hits = {} THEN 0 ELSE CHOOSE i \in hits : \A j \in hits : i <= j

\* str::find of a pattern of several tokens, from the start
FindSeq(t, pat) ==
    LET hits == {i \in 1..(Len(t) - Len(pat) + 1) :
                    \A d \in 1..Len(pat) : t[i + d - 1] = pat[d]} IN
    IF hits = {} THEN 0 ELSE CHOOSE i \in hits : \A j \in hits : i <= j

\* str::contains
Contains(t, pat) == FindSeq(t, pat) # 0

\* &t[from..]
From(t, from) == SubSeq(t, from, Len(t))

\* &t[..to], to exclusive
Upto(t, to) == SubSeq(t, 1, to - 1)

\* str::trim_start
TrimStart(t) ==
    LET keep == {i \in 1..Len(t) : ~IsWhitespace(t[i])} IN
    IF keep = {} THEN <<>> ELSE From(t, CHOOSE i \in keep : \A j \in keep : i <= j)

\* str::trim_end
TrimEnd(t) ==
    LET keep == {i \in 1..Len(t) : ~IsWhitespace(t[i])} IN
    IF keep = {} THEN <<>> ELSE SubSeq(t, 1, CHOOSE i \in keep : \A j \in keep : j <= i)

\* a trim that leaves the whitespace at the end
TrimLeadingOnly(t) == TrimStart(t)

\* str::trim
Trim(t) == TrimEnd(TrimStart(t))

\* format!("{}{}", a, b): the two pieces become one string, in which the
\* two halves of a marker that now stand side by side are that marker
Joined(a, b) ==
    IF a = <<>> \/ b = <<>> THEN a \o b
    ELSE IF Last(a) = FunctionOpenHead /\ b[1] = FunctionOpenTail
      THEN SubSeq(a, 1, Len(a) - 1) \o <<FunctionOpen>> \o Tail(b)
    ELSE IF Last(a) = ToolCallOpenHead /\ b[1] = ToolCallOpenTail
      THEN SubSeq(a, 1, Len(a) - 1) \o <<ToolCallOpen>> \o Tail(b)
    ELSE a \o b

\* one iteration of the <function= loop, for a text that holds the marker
StripFunctionStep(t) ==
    LET start == Find(t, FunctionOpen, 1)
        end == Find(t, FunctionClose, start)
        eol == Find(t, NL, start)
    IN  IF end # 0
          THEN LET remove_end == end + 1
                   actual_end == IF remove_end <= Len(t) /\ t[remove_end] \in Dots
                                   THEN remove_end + 1 ELSE remove_end
               IN  Joined(Upto(t, start), TrimStart(From(t, actual_end)))
        ELSE IF eol # 0 THEN Joined(Upto(t, start), From(t, eol))
        ELSE Upto(t, start)

\* one iteration of the <tool_call> loop, for a text that holds the marker
StripToolCallStep(t) ==
    LET start == Find(t, ToolCallOpen, 1)
        end == Find(t, ToolCallClose, start)
        eol == Find(t, NL, start)
    IN  IF end # 0 THEN Joined(Upto(t, start), TrimStart(From(t, end + 1)))
        ELSE IF eol # 0 THEN Joined(Upto(t, start), From(t, eol))
        ELSE Upto(t, start)

\* result.find("[fence]tool_code")
ToolCodeStart(t) == FindSeq(t, <<Fence, "tool_code">>)

\* result[start + 12..].find("[fence]")
ToolCodeEnd(t) == Find(t, Fence, ToolCodeStart(t) + 2)

\* one iteration of the [fence]tool_code loop, for a block that is closed
StripToolCodeStep(t) ==
    Joined(Upto(t, ToolCodeStart(t)), TrimStart(From(t, ToolCodeEnd(t) + 1)))

\* looks_like_fake_command_output
LooksLikeFakeCommandOutput(t) ==
    \/ Contains(t, <<"$", SP, SystemCommand>>)
    \/ /\ \E i \in 1..(Len(t) - 1) : t[i] = Fence /\ Lower(t[i + 1]) \in ShellTags
       /\ Contains(t, <<"$", SP>>)

\* looks_like_fabricated_action
LooksLikeFabricatedAction(t) ==
    \/ \E i \in 1..Len(t) : Lower(t[i]) = ActionClaim
    \/ \E i \in 1..Len(t) : t[i] = TreeGlyph

\* the positions of the newlines of a text
Newlines(t) == {i \in 1..Len(t) : t[i] = NL}

\* the position of the k-th newline
NewlineAt(t, k) ==
    CHOOSE p \in Newlines(t) : Cardinality({q \in Newlines(t) : q <= p}) = k

\* str::lines: the pieces between newlines; a text that ends with a newline
\* has no empty last line
Lines(t) ==
    LET n == Cardinality(Newlines(t)) + (IF t # <<>> /\ t[Len(t)] # NL THEN 1 ELSE 0) IN
    [k \in 1..n |->
        SubSeq(t, IF k = 1 THEN 1 ELSE NewlineAt(t, k - 1) + 1,
                  IF k <= Cardinality(Newlines(t)) THEN NewlineAt(t, k) - 1 ELSE Len(t))]

\* line.trim().to_lowercase() starts with one of block_start_tags, the
\* shortest of which is the bare fence
IsCodeBlockStart(line) == Trim(line) # <<>> /\ Trim(line)[1] = Fence

\* lines[j].trim() == "[fence]"
IsClosingFence(line) == Trim(line) = <<Fence>>

\* line.trim_start().starts_with("$ ")
IsPromptLine(line) ==
    LET l == TrimStart(line) IN Len(l) >= 2 /\ l[1] = "$" /\ l[2] = SP

\* the look-ahead of strip_fake_command_blocks from the block start i:
\* the first closing fence after i, 0 when there is none
FirstClosing(lines, i) ==
    LET c == {j \in (i + 1)..Len(lines) : IsClosingFence(lines[j])} IN
    IF c = {} THEN 0 ELSE CHOOSE j \in c : \A k \in c : j <= k

\* has_shell_prompt: a prompt line between the start and the closing fence
\* (the end of the text when the block is not closed)
HasShellPrompt(lines, i) ==
    LET last == IF FirstClosing(lines, i) # 0 THEN FirstClosing(lines, i) - 1
                ELSE Len(lines)
    IN  \E j \in (i + 1)..last : IsPromptLine(lines[j])

\* block_end
BlockEnd(lines, i) == IF FirstClosing(lines, i) # 0 THEN FirstClosing(lines, i) ELSE i + 1

\* the inner while of the inline rule: the first line at or after k that is
\* not taken for output of the command
RECURSIVE SkipOutput(_, _)
SkipOutput(lines, k) ==
    IF /\ k <= Len(lines)
       /\ ~IsPromptLine(lines[k])
       /\ Trim(lines[k]) # <<>>
       /\ ~IsCodeBlockStart(lines[k])
      THEN SkipOutput(lines, k + 1)
      ELSE k

\* strip_fake_command_blocks: one iteration of the while loop at line i,
\* giving the next i and the text kept so far
StripLinesStep(lines, i, out) ==
    IF IsCodeBlockStart(lines[i]) /\ HasShellPrompt(lines, i)
      THEN [i |-> BlockEnd(lines, i) + 1, out |-> out]
    ELSE IF IsPromptLine(lines[i])
      THEN [i |-> SkipOutput(lines, i + 1), out |-> out]
    ELSE [i |-> i + 1, out |-> out \o lines[i] \o <<NL>>]

\* a second pass that keeps whatever the stripping left
AfterStripKeep(out) == out

\* clean_response: what becomes of the text strip_fake_command_blocks returned
AfterStrip(out) == IF Trim(out) = <<>> THEN <<Apology>> ELSE out

\* a check for bash that is always satisfied
BashWasUsedAlways(tools) == TRUE

\* tools_used.iter().any(|t| t == "bash")
BashWasUsed(tools) == "bash" \in Range(tools)

\* clean_response: the condition under which the text is stripped
StripsFakeCommands(t, tools) == ~BashWasUsed(tools) /\ LooksLikeFakeCommandOutput(t)

\* a test for "no tool" that looks for bash only
NoToolUsedButBash(tools) == "bash" \notin Range(tools)

\* tools_used.is_empty()
NoToolUsed(tools) == tools = <<>>

\* the third pass of clean_response
FabricatedActionPass(t, tools) ==
    IF NoToolUsed(tools) /\ LooksLikeFabricatedAction(t)
      THEN t \o <<NL, NL, Warning>>
      ELSE t

\* str::replace("\n\n\n", "\n\n"): every match from the left, without overlap
RECURSIVE ReplaceTripleNewline(_)
ReplaceTripleNewline(t) ==
    IF Len(t) < 3 THEN t
    ELSE IF t[1] = NL /\ t[2] = NL /\ t[3] = NL
      THEN <<NL, NL>> \o ReplaceTripleNewline(From(t, 4))
    ELSE <<t[1]>> \o ReplaceTripleNewline(From(t, 2))

\* fragments in which every marker stands in one piece
WholeFragments ==
    { <<"word">>,
      <<SP>>,
      <<NL>>,
      <<NL, NL>>,
      <<FunctionOpen, "word", FunctionClose, "...">>,
      <<FunctionOpen, "word">>,
      <<FunctionClose>>,
      <<ToolCallOpen, "word">>,
      <<ToolCallClose>>,
      <<Fence, "tool_code", NL, "word", NL>>,
      <<Fence>>,
      <<Fence, "bash", NL, "$", SP, "word", NL, "word", NL, Fence>>,
      <<Fence, "BASH", NL>>,
      <<"$", SP, "word", NL>>,
      <<"$", SP, SystemCommand>>,
      <<ActionClaimUpper>>,
      <<TreeGlyph>> }

\* fragments in which markup of one kind stands between the two halves of
\* an opening marker of the other kind
SplitMarkerFragments ==
    { <<FunctionOpenHead, ToolCallOpen, "word", ToolCallClose, SP, FunctionOpenTail>>,
      <<ToolCallOpenHead, FunctionOpen, "word", FunctionClose, ToolCallOpenTail>> }

\* the texts the sanitizer is run on are composed of these fragments
Fragments == WholeFragments \cup SplitMarkerFragments

RECURSIVE Concat(_)
Concat(ss) == IF ss = <<>> THEN <<>> ELSE ss[1] \o Concat(Tail(ss))

\* the texts: no two fragments put the halves of a marker side by side
CleanTexts == {Concat(fs) : fs \in SeqsUpTo(Fragments, MaxFrags)}

\* the tools_used lists handed to the sanitizer
CleanTools == {<<>>, <<"bash">>, <<"memory_save">>}

\* the arguments of clean_response
CleanInputs == {[text |-> t, tools_used |-> u] : t \in CleanTexts, u \in CleanTools}

\* the locals of clean_response: result, and inside
\* strip_fake_command_blocks lines, i and its own result (out)
Locals(r, ls, i, o) == [result |-> r, lines |-> ls, i |-> i, out |-> o]

\* clean_response is entered: result = text.to_string()
InitClean ==
    /\ PoolInit(0)
    /\ LoopIdle
    /\ TurnIdle
    /\ arg \in CleanInputs
    /\ acc = Locals(arg.text, <<>>, 0, <<>>)
    /\ fpc = "function"

\* clean_response: the while loop over <function=
StripFunctionTags ==
    /\ fpc = "function"
    /\ IF Find(acc.result, FunctionOpen, 1) # 0
         THEN acc' = [acc EXCEPT !.result = StripFunctionStep(@)] /\ UNCHANGED fpc
         ELSE fpc' = "tool_call" /\ UNCHANGED acc
    /\ UNCHANGED arg
    /\ UNCHANGED <<poolVars, loopVars, turnVars>>

\* clean_response: the while loop over <tool_call>
StripToolCallTags ==
    /\ fpc = "tool_call"
    /\ IF Find(acc.result, ToolCallOpen, 1) # 0
         THEN acc' = [acc EXCEPT !.result = StripToolCallStep(@)] /\ UNCHANGED fpc
         ELSE fpc' = "tool_code" /\ UNCHANGED acc
    /\ UNCHANGED arg
    /\ UNCHANGED <<poolVars, loopVars, turnVars>>

\* a [fence]tool_code loop that goes round again when the block is not closed
LeavesToolCodeLoopNever(t) == ToolCodeStart(t) = 0

\* clean_response: the [fence]tool_code loop is left when no marker is
\* found, and through the break when the block is not closed
LeavesToolCodeLoop(t) == ToolCodeStart(t) = 0 \/ ToolCodeEnd(t) = 0

\* clean_response: the while loop over [fence]tool_code
StripToolCodeBlocks ==
    /\ fpc = "tool_code"
    /\ IF LeavesToolCodeLoop(acc.result)
         THEN fpc' = "fake_command" /\ UNCHANGED acc
         ELSE IF ToolCodeEnd(acc.result) # 0
           THEN acc' = [acc EXCEPT !.result = StripToolCodeStep(@)] /\ UNCHANGED fpc
           ELSE UNCHANGED <<acc, fpc>>
    /\ UNCHANGED arg
    /\ UNCHANGED <<poolVars, loopVars, turnVars>>

\* clean_response: the fake command output check; strip_fake_command_blocks
\* is entered when it applies
CheckFakeCommands ==
    /\ fpc = "fake_command"
    /\ IF StripsFakeCommands(acc.result, arg.tools_used)
         THEN /\ acc' = Locals(acc.result, Lines(acc.result), 1, <<>>)
              /\ fpc' = "strip"
         ELSE /\ fpc' = "fabricated"
              /\ UNCHANGED acc
    /\ UNCHANGED arg
    /\ UNCHANGED <<poolVars, loopVars, turnVars>>

\* strip_fake_command_blocks: the while loop over the lines; at its end the
\* stripped text, or the apology when nothing is left, becomes the result
StripFakeCommandBlocks ==
    /\ fpc = "strip"
    /\ IF acc.i <= Len(acc.lines)
         THEN /\ acc' = [acc EXCEPT !.i = StripLinesStep(acc.lines, acc.i, acc.out).i,
                                     !.out = StripLinesStep(acc.lines, acc.i, acc.out).out]
              /\ UNCHANGED fpc
         ELSE /\ acc' = Locals(AfterStrip(acc.out), <<>>, 0, <<>>)
              /\ fpc' = "fabricated"
    /\ UNCHANGED arg
    /\ UNCHANGED <<poolVars, loopVars, turnVars>>

\* clean_response: the fabricated action check
FlagFabricatedAction ==
    /\ fpc = "fabricated"
    /\ acc' = [acc EXCEPT !.result = FabricatedActionPass(@, arg.tools_used)]
    /\ fpc' = "collapse"
    /\ UNCHANGED arg
    /\ UNCHANGED <<poolVars, loopVars, turnVars>>

\* clean_response: the while loop over "\n\n\n", then result.trim()
CollapseAndTrim ==
    /\ fpc = "collapse"
    /\ IF Contains(acc.result, <<NL, NL, NL>>)
         THEN acc' = [acc EXCEPT !.result = ReplaceTripleNewline(@)] /\ UNCHANGED fpc
         ELSE acc' = [acc EXCEPT !.result = Trim(@)] /\ fpc' = "done"
    /\ UNCHANGED arg
    /\ UNCHANGED <<poolVars, loopVars, turnVars>>

NextClean ==
    \/ StripFunctionTags
    \/ StripToolCallTags
    \/ StripToolCodeBlocks
    \/ CheckFakeCommands
    \/ StripFakeCommandBlocks
    \/ FlagFabricatedAction
    \/ CollapseAndTrim

SpecClean == InitClean /\ [][NextClean]_vars

\* the caller is about to call clean_response
InitCleanFair ==
    /\ PoolInit(0)
    /\ LoopIdle
    /\ TurnIdle
    /\ arg = <<>>
    /\ acc = <<>>
    /\ fpc = "call"

\* the texts clean_response is called with in SpecCleanFair: up to MaxFrags
\* fragments with whole markers, one fragment less when a marker is split
CalledTexts ==
    {Concat(fs) : fs \in SeqsUpTo(WholeFragments, MaxFrags)}
        \cup {Concat(fs) : fs \in SeqsUpTo(Fragments, MaxFrags - 1)}

CalledInputs == {[text |-> t, tools_used |-> u] : t \in CalledTexts, u \in CleanTools}

\* clean_response is called with a text and a tools_used list
CleanEnter ==
    /\ fpc = "call"
    /\ arg' \in CalledInputs
    /\ acc' = Locals(arg'.text, <<>>, 0, <<>>)
    /\ fpc' = "function"
    /\ UNCHANGED <<poolVars, loopVars, turnVars>>

NextCleanFair ==
    \/ CleanEnter
    \/ StripFunctionTags
    \/ StripToolCallTags
    \/ StripToolCodeBlocks
    \/ CheckFakeCommands
    \/ StripFakeCommandBlocks
    \/ FlagFabricatedAction
    \/ CollapseAndTrim

\* clean_response from its call on; once called it keeps running: it does
\* not wait for anything
SpecCleanFair == InitCleanFair /\ [][NextCleanFair]_vars /\ WF_vars(NextClean)

\* ------------------------------------------------------------ turn handler
\* run_agent_and_respond_inner for a text message (has_direct_content is
\* false), from the loading of the history on.

\* the while loop over <function=, run to its end
RECURSIVE StripAllFunctionTags(_)
StripAllFunctionTags(t) ==
    IF Find(t, FunctionOpen, 1) # 0 THEN StripAllFunctionTags(StripFunctionStep(t)) ELSE t

\* the while loop over <tool_call>, run to its end
RECURSIVE StripAllToolCallTags(_)
StripAllToolCallTags(t) ==
    IF Find(t, ToolCallOpen, 1) # 0 THEN StripAllToolCallTags(StripToolCallStep(t)) ELSE t

\* the while loop over [fence]tool_code, run to its end
RECURSIVE StripAllToolCodeBlocks(_)
StripAllToolCodeBlocks(t) ==
    IF LeavesToolCodeLoop(t) THEN t ELSE StripAllToolCodeBlocks(StripToolCodeStep(t))

\* strip_fake_command_blocks: the while loop from line i on
RECURSIVE StripLinesFrom(_, _, _)
StripLinesFrom(lines, i, out) ==
    IF i <= Len(lines)
      THEN StripLinesFrom(lines, StripLinesStep(lines, i, out).i,
                          StripLinesStep(lines, i, out).out)
      ELSE out

\* the second pass of clean_response
FakeCommandPass(t, tools) ==
    IF StripsFakeCommands(t, tools) THEN AfterStrip(StripLinesFrom(Lines(t), 1, <<>>)) ELSE t

\* the while loop over "\n\n\n", run to its end
RECURSIVE CollapseNewlines(_)
CollapseNewlines(t) ==
    IF Contains(t, <<NL, NL, NL>>) THEN CollapseNewlines(ReplaceTripleNewline(t)) ELSE t

\* clean_response, as a function of its arguments
CleanResponse(t, tools) ==
    Trim(CollapseNewlines(
        FabricatedActionPass(
            FakeCommandPass(
                StripAllToolCodeBlocks(StripAllToolCallTags(StripAllFunctionTags(t))),
                tools),
            tools)))

\* a row of session_messages
Row(role, content) == [role |-> role, content |-> content]

\* a text of the loop as the text of words the sanitizer and the database see
Tokens(str) == IF str = "" THEN <<>> ELSE <<str>>

\* a stored text, of one word at most, as a text of the loop
TextOf(t) == IF t = <<>> THEN "" ELSE t[1]

\* the max_pairs the handler loads the history with
HistoryPairs == 6

\* Database::load_history: the last max_pairs * 2 rows, oldest first
LoadHistory(rows, max_pairs) ==
    IF Len(rows) <= max_pairs * 2 THEN rows
    ELSE SubSeq(rows, Len(rows) - max_pairs * 2 + 1, Len(rows))

\* the handler's filter_map over raw_history: rows of role user and
\* assistant become Text messages, any other row is dropped
HistoryOf(rows) ==
    LET kept == SelectSeq(rows, LAMBDA r : r.role \in {"user", "assistant"}) IN
    [i \in 1..Len(kept) |->
        TextMsg(IF kept[i].role = "user" THEN "User" ELSE "Assistant", TextOf(kept[i].content))]

\* history_text of the message being handled
HistoryText == Tokens("q")

\* what the session holds when the message arrives: nothing, an exchange,
\* an exchange followed by a question that got no answer
StoredSessions ==
    { <<>>,
      <<Row("user", Tokens("q0")), Row("assistant", Tokens("a0"))>>,
      <<Row("user", Tokens("q0")), Row("assistant", Tokens("a0")),
        Row("user", Tokens("q1"))>> }

\* the handler has sent "Thinking..." and is about to load the history
InitTurn ==
    /\ PoolInit(MaxLoopKeys)
    /\ LoopIdle
    /\ FnIdle
    /\ hpc = "load"
    /\ session_messages \in StoredSessions
    /\ raw_history = <<>>
    /\ reply = <<>>
    /\ CallbackInit

\* a handler that appends the user message first and loads the history
\* afterwards
HandlerLoadAfterAppend ==
    /\ hpc = "load"
    /\ raw_history' = LoadHistory(Append(session_messages, Row("user", HistoryText)),
                                  HistoryPairs)
    /\ session_messages' = Append(session_messages, Row("user", HistoryText))
    /\ rpc' = "start"
    /\ max_turns' \in 0..MaxAgentTurns
    /\ hpc' = "run"
    /\ UNCHANGED <<turn, messages, tools_used, last_provider, pending, tcIdx, result,
                   progress, modelCalls, responses>>
    /\ UNCHANGED <<reply, cbVars, poolVars, fnVars>>

\* the handler loads the history, appends the user message to the session
\* and calls AgentLoop::run
HandlerLoad ==
    /\ hpc = "load"
    /\ raw_history' = LoadHistory(session_messages, HistoryPairs)
    /\ session_messages' = Append(session_messages, Row("user", HistoryText))
    /\ rpc' = "start"
    /\ max_turns' \in 0..MaxAgentTurns
    /\ hpc' = "run"
    /\ UNCHANGED <<turn, messages, tools_used, last_provider, pending, tcIdx, result,
                   progress, modelCalls, responses>>
    /\ UNCHANGED <<reply, cbVars, poolVars, fnVars>>

\* run starts on the history the handler loaded
HandlerRunStart == hpc = "run" /\ RunStart(HistoryOf(raw_history))

\* the Ok arm: the response is cleaned, appended to the session as the
\* assistant message and sent with the footer
HandlerOk ==
    /\ hpc = "run"
    /\ rpc = "returned"
    /\ LET cleaned == CleanResponse(Tokens(result.response), result.tools_used) IN
        /\ session_messages' = Append(session_messages, Row("assistant", cleaned))
        /\ reply' = <<"answer", cleaned, result.tools_used, result.tools_count,
                      result.provider, result.turns>>
        /\ shown' = <<"answer", cleaned>>
    /\ hpc' = "replied"
    /\ UNCHANGED <<now, last_edit, edits>>
    /\ UNCHANGED <<raw_history, poolVars, loopVars, fnVars>>

\* the Err arm: the error is sent, nothing is appended
HandlerErr ==
    /\ hpc = "run"
    /\ rpc = "failed"
    /\ reply' = <<"Error", result.err>>
    /\ shown' = <<"Error", result.err>>
    /\ hpc' = "replied"
    /\ UNCHANGED <<now, last_edit, edits>>
    /\ UNCHANGED <<session_messages, raw_history, poolVars, loopVars, fnVars>>

\* a panic inside run unwinds the handler
HandlerUnwind ==
    /\ hpc = "run"
    /\ rpc = "panicked"
    /\ hpc' = "unwound"
    /\ UNCHANGED <<session_messages, raw_history, reply, cbVars, poolVars, loopVars,
                   fnVars>>

NextTurn ==
    \/ HandlerLoad
    \/ HandlerRunStart
    \/ RunHead
    \/ RunChatNextKey
    \/ \E x \in Exchanges(LoopResps \cup ExtractResps) : RunChatReply(x)
    \/ RunAfterChat
    \/ \E e \in {Env(ok, o) : ok \in BOOLEAN, o \in CommandOutputs \cup {EmptyStr}} : RunTool(e)
    \/ RunAfterExtract
    \/ HandlerOk
    \/ HandlerErr
    \/ HandlerUnwind
    \/ \E i \in 1..Len(edits) : EditCompletes(i)

\* one message handled on a fresh pool
SpecTurn == InitTurn /\ [][NextTurn]_vars

\* one message handled on a pool of one key
InitSession == InitTurn /\ nkeys = 1

SpecSession == InitSession /\ [][NextTurn]_vars

\* the first message of a session
InitProgress == InitTurn /\ session_messages = <<>>

\* one message handled in a new session, with its progress updates
SpecProgress == InitProgress /\ [][NextTurn]_vars

\* ------------------------------------------------- message entry and access
\* most items (pieces between commas) of TELEGRAM_ALLOWED_USERS
MaxEnvItems == 2

\* the items the variable is written with: nothing, ids, an id with blanks
\* around it, a word
EnvItems == {"", "0", "7", " 8 ", "x"}

\* the variable: unset, or a text of one item or more
EnvValues == {None} \cup {Some(v) : v \in SeqsUpTo(EnvItems, MaxEnvItems) \ {<<>>}}

\* env::var(..).unwrap_or_default().split(','): an unset variable reads as
\* the empty text, which splits into one empty item
SplitEnv(e) == IF e = None THEN <<"">> ELSE e[1]

\* s.trim().parse::<u64>().ok()
ParseU64(s) ==
    CASE s = "0" -> Some(0)
      [] s = "7" -> Some(7)
      [] s = " 8 " -> Some(8)
      [] OTHER -> None

\* Config::from_env, allowed_users: empty items are dropped, then items that
\* do not parse
AllowedUsersOf(e) ==
    LET items == SelectSeq(SplitEnv(e), LAMBDA s : s # "")
        parsed == SelectSeq(items, LAMBDA s : ParseU64(s) # None)
    IN  [i \in 1..Len(parsed) |-> ParseU64(parsed[i])[1]]

\* msg.from: no sender, or a sender with an id
Senders == {None, Some(7), Some(8), Some(9)}

\* msg.from.as_ref().map(|u| u.id.0).unwrap_or(0)
UserIdOf(from) == IF from = None THEN 0 ELSE from[1]

\* what a message carries: photo sizes (none, an empty list, some), a
\* document or not, a text (none, empty, a command, a sentence)
Incoming ==
    [from : Senders, photo : {"none", "empty", "some"}, document : BOOLEAN,
     text : {None, Some(""), Some("/new"), Some("hello")}]

\* text.starts_with('/')
IsCommand(t) == t = "/new"

\* a check that lets every message pass
RejectsNobody(allowed_users, user_id) == FALSE

\* handle_message: the auth check
Rejects(allowed_users, user_id) ==
    allowed_users # <<>> /\ user_id \notin Range(allowed_users)

\* handle_message past the auth check: the handler the message goes to
RouteOf(m) ==
    IF m.photo = "some" THEN "handle_photo"
    ELSE IF m.document THEN "handle_document"
    ELSE IF m.text = None \/ m.text = Some("") THEN "return"
    ELSE IF IsCommand(m.text[1]) THEN "handle_command"
    ELSE "run_agent_and_respond"

\* what a handler does when it is entered
EffectsOf(handler) ==
    CASE handler = "handle_photo" -> {"download", "store", "agent"}
      [] handler = "handle_document" -> {"download", "store", "agent"}
      [] handler = "handle_command" -> {"command", "store"}
      [] handler = "run_agent_and_respond" -> {"store", "agent"}
      [] OTHER -> {}

\* the bot is started on an environment and a message arrives
InitAccess ==
    /\ PoolInit(0)
    /\ LoopIdle
    /\ TurnIdle
    /\ arg \in [env : EnvValues, msg : Incoming]
    /\ acc = [allowed_users |-> <<>>, sent |-> <<>>, entered |-> <<>>]
    /\ fpc = "from_env"

\* Config::from_env reads the allowed users
FromEnv ==
    /\ fpc = "from_env"
    /\ acc' = [acc EXCEPT !.allowed_users = AllowedUsersOf(arg.env)]
    /\ fpc' = "auth"
    /\ UNCHANGED arg
    /\ UNCHANGED <<poolVars, loopVars, turnVars>>

\* handle_message: the auth check, which answers and returns or falls through
AuthCheck ==
    /\ fpc = "auth"
    /\ IF Rejects(acc.allowed_users, UserIdOf(arg.msg.from))
         THEN /\ acc' = [acc EXCEPT !.sent = Append(@, "Unauthorized.")]
              /\ fpc' = "returned"
         ELSE /\ fpc' = "route"
              /\ UNCHANGED acc
    /\ UNCHANGED arg
    /\ UNCHANGED <<poolVars, loopVars, turnVars>>

\* handle_message: the message goes to its handler, or is dropped
RouteMessage ==
    /\ fpc = "route"
    /\ acc' = [acc EXCEPT !.entered = IF RouteOf(arg.msg) = "return" THEN @
                                       ELSE Append(@, RouteOf(arg.msg))]
    /\ fpc' = "returned"
    /\ UNCHANGED arg
    /\ UNCHANGED <<poolVars, loopVars, turnVars>>

NextAccess ==
    \/ FromEnv
    \/ AuthCheck
    \/ RouteMessage

SpecAccess == InitAccess /\ [][NextAccess]_vars

\* ================================================================== claims

C3_ConcurrentCallNeverSkipsOrRepeats ==
    \A p \in Procs :
        /\ \A i, j \in 1..Len(tried[p]) : i # j => tried[p][i] # tried[p][j]
        /\ (cpc[p] = "done" /\ cres[p] = ExhaustedError) =>
              /\ Len(tried[p]) = nkeys
              /\ Range(tried[p]) = 1..nkeys

C5_FailoverOnlyOnRateLimited ==
    \A p \in Procs :
        LET n == Len(outcomes[p]) IN
        /\ \A i \in 1..(n - 1) : outcomes[p][i] = "RateLimited"
        /\ (n >= 1 /\ outcomes[p][n] = "RateLimited" /\ n < nkeys) =>
              \/ cpc[p] = "loop" /\ Len(tried[p]) = n /\ attempt[p] < KeyPoolLen
              \/ cpc[p] = "await" /\ Len(tried[p]) = n + 1
        /\ (n >= 1 /\ outcomes[p][n] \in {"AuthError", "RequestError", "ParseError"}) =>
              /\ cpc[p] = "done"
              /\ Len(tried[p]) = n
              /\ ~cres[p].ok
              /\ cres[p].kind = outcomes[p][n]
              /\ cres[p] # ExhaustedError
        /\ (n >= 1 /\ outcomes[p][n] = "Ok") =>
              /\ cpc[p] = "done"
              /\ Len(tried[p]) = n
              /\ cres[p].ok

\* a call that was rate limited on its first key and failed fast on the
\* second with an authentication error, a third key being left
C5_Witness ==
    \E p \in Procs :
        /\ nkeys = 3
        /\ outcomes[p] = <<"RateLimited", "AuthError">>
        /\ cpc[p] = "done"
        /\ cres[p].kind = "AuthError"

\* ---- C8 (SpecSeq) -----------------------------------------------------
\* C8: on a pool without keys chat() returns NoKeys, no provider attempt is
\* made and the cursor keeps its value.
C8_EmptyPoolFailsFast ==
    nkeys = 0 =>
        /\ index = 0
        /\ \A p \in Procs :
              /\ tried[p] = <<>>
              /\ outcomes[p] = <<>>
              /\ cpc[p] \in {"idle", "done"}
              /\ cpc[p] = "done" => cres[p] = ErrResult("NoKeys", "No available keys")

\* two calls on the empty pool have returned
C8_Witness ==
    /\ nkeys = 0
    /\ ncalls[1] = 2
    /\ cpc[1] = "done"

\* ---- C9 (SpecSeq) -----------------------------------------------------
\* C9: when every attempt of a call was rate limited, chat() fails with an
\* error whose kind differs from the kind of a single key's transport or
\* request failure.
C9_ExhaustedKindDiffersFromRequestFailure ==
    \A p \in Procs :
        ( /\ cpc[p] = "done"
          /\ nkeys >= 1
          /\ Len(outcomes[p]) = nkeys
          /\ \A i \in 1..nkeys : outcomes[p][i] = "RateLimited" ) =>
            /\ ~cres[p].ok
            /\ cres[p].kind # ClaudeChat(TransportFailure).kind
            /\ \A st \in {c \in SampleStatuses :
                            ~IsSuccess(c) /\ c \notin {StatusTooManyRequests, StatusUnauthorized}} :
                  cres[p].kind # ClaudeChat(HttpReply(st, FALSE, NoResp)).kind

\* ---- C1 (Spec) --------------------------------------------------------
\* the run is over: it returned, or it unwound
RunEnded == rpc \in {"returned", "failed", "panicked"}

\* every model call of the loop was answered by a response carrying a tool call
EveryResponseCallsTools ==
    /\ Len(responses) = modelCalls
    /\ \A i \in 1..Len(responses) : responses[i].tool_calls # <<>>

\* C1: a run issues at most max_turns model calls, and when every model
\* response carries a tool call it issues exactly max_turns of them and
\* returns Ok with turns = max_turns.
C1_TurnBudgetBoundsModelCalls ==
    /\ modelCalls <= max_turns
    /\ (RunEnded /\ EveryResponseCallsTools) =>
          /\ rpc = "returned"
          /\ result.ok
          /\ modelCalls = max_turns
          /\ result.turns = max_turns

\* ---- C6 (Spec) --------------------------------------------------------
\* C6: when a pool.chat call of the loop fails, the next step of the run
\* returns Err carrying that error and no partial result, without a further
\* model call, tool execution, progress event or message; after that the run
\* takes no step at all.
C6_ProviderErrorAbortsRun ==
    [][ /\ (rpc = "in_chat" /\ cpc[Runner] = "done" /\ ~cres[Runner].ok) =>
              /\ rpc' = "failed"
              /\ ~result'.ok
              /\ result'.err = <<"LLM error", cres[Runner].kind, cres[Runner].msg>>
              /\ result'.response = ""
              /\ result'.tools_used = <<>>
              /\ UNCHANGED <<modelCalls, tools_used, progress, messages, responses, index>>
        /\ rpc = "failed" => UNCHANGED vars
      ]_vars

\* the second model call of a run failed on authentication after the tools
\* of the first turn had run
C6_Witness ==
    /\ rpc = "failed"
    /\ turn = 1
    /\ tools_used # <<>>
    /\ result.err = <<"LLM error", "AuthError", "Invalid API key">>

\* ---- C7 (Spec) --------------------------------------------------------
ToolMsgCount == Cardinality({i \in 1..Len(messages) : messages[i].role = "Tool"})

\* C7: no tool execution aborts the run: every executed tool call yields
\* text that is appended as a Tool message, and the loop goes on.
C7_NoToolOutcomeAbortsLoop ==
    /\ rpc # "panicked"
    /\ rpc # "in_extract" => ToolMsgCount = Len(tools_used)

\* ---- C10 (Spec) -------------------------------------------------------
\* the turn budget ran out: run returned and none of its max_turns
\* responses was free of tool calls
BudgetExhausted ==
    /\ rpc = "returned"
    /\ Len(responses) = max_turns
    /\ \A i \in 1..Len(responses) : responses[i].tool_calls # <<>>

\* C10: when the turn budget runs out, run returns Ok with turns = max_turns
\* and the text of the most recent Assistant message of the message list
\* (history included), or the fixed fallback when there is none.
C10_MaxTurnsReturnsLastAssistantText ==
    BudgetExhausted =>
        /\ result.ok
        /\ result.turns = max_turns
        /\ \/ /\ \A i \in 1..Len(messages) : messages[i].role # "Assistant"
              /\ result.response = MaxTurnsFallback
           \/ \E i \in 1..Len(messages) :
                /\ messages[i].role = "Assistant"
                /\ \A j \in (i + 1)..Len(messages) : messages[j].role # "Assistant"
                /\ result.response = AsText(messages[i])

\* a history with an Assistant message, a first response with text and a
\* second without: the text returned is the empty text of the second
C10_Witness ==
    /\ BudgetExhausted
    /\ max_turns = 2
    /\ messages[3].role = "Assistant"
    /\ responses[1].content = Some("r1")
    /\ responses[2].content = None
    /\ result.response = ""

\* ---- C11 (Spec) -------------------------------------------------------
\* tool calls carried by the first n responses of the run
RECURSIVE CallsIn(_, _)
CallsIn(rs, n) == IF n = 0 THEN 0 ELSE CallsIn(rs, n - 1) + Len(rs[n].tool_calls)

\* the latest response of the run carries no tool call
FinalResponseSeen == responses # <<>> /\ Last(responses).tool_calls = <<>>

\* C11: the first response without tool calls ends the run successfully:
\* every earlier response carried tool calls, the only tools executed and
\* the only model calls made are those up to that response, the result text
\* is the response's text ("" when it has none) and turns is the number of
\* model calls made, between 1 and max_turns.
C11_FirstFinalResponseEndsRun ==
    FinalResponseSeen =>
        /\ rpc = "returned"
        /\ result.ok
        /\ \A i \in 1..(Len(responses) - 1) : responses[i].tool_calls # <<>>
        /\ modelCalls = Len(responses)
        /\ Len(tools_used) = CallsIn(responses, Len(responses) - 1)
        /\ pending = <<>>
        /\ result.response = (IF Last(responses).content = None THEN ""
                               ELSE Last(responses).content[1])
        /\ result.turns = modelCalls
        /\ result.turns \in 1..max_turns

\* the second response of a run had neither tool calls nor text, after a
\* first turn that ran three tools
C11_Witness ==
    /\ FinalResponseSeen
    /\ Len(responses) = 2
    /\ Last(responses).content = None
    /\ Len(tools_used) = 3
    /\ result.response = ""
    /\ result.turns = 2

\* ---- C12 (Spec) -------------------------------------------------------
RECURSIVE SumSeq(_)
SumSeq(s) == IF s = <<>> THEN 0 ELSE s[1] + SumSeq(Tail(s))

\* C12: in the result of a run, tools_used holds each executed tool name
\* exactly once in ascending byte-wise order, tools_count is parallel to it
\* with the number of executions of each name, and the counts add up to the
\* number of tool calls executed.
C12_ToolSummaryDistinctSortedCounted ==
    rpc = "returned" =>
        LET names == result.tools_used
            counts == result.tools_count
        IN  /\ Range(names) = Range(tools_used)
            /\ \A i \in 1..(Len(names) - 1) : StrLess(names[i], names[i + 1])
            /\ Len(counts) = Len(names)
            /\ \A i \in 1..Len(names) : counts[i] = Count(tools_used, names[i])
            /\ SumSeq(counts) = Len(tools_used)

\* an unknown tool ran first, then bash twice around memory_save: the
\* summary lists bash first
C12_Witness ==
    /\ rpc = "returned"
    /\ tools_used = <<"frobnicate", "bash", "memory_save", "bash">>
    /\ result.tools_used = <<"bash", "frobnicate", "memory_save">>
    /\ result.tools_count = <<2, 1, 1>>

\* ---- C13 (SpecWire) ---------------------------------------------------
\* the messages that are translated into wire turns: system messages go to
\* the system prompt, wherever they stand in the list
IsNotSystem(m) == m.role # "System"

Body == SelectSeq(arg, IsNotSystem)

IsToolMsg(i) == Body[i].role = "Tool"

\* message i is translated into a wire turn of its own
OwnTurn(i) == Body[i].role # "Tool"

\* a run of consecutive Tool messages begins at i
ToolRunBegins(i) == IsToolMsg(i) /\ (i = 1 \/ ~IsToolMsg(i - 1))

\* the last message of the run of Tool messages that begins at i
ToolRunEnd(i) ==
    CHOOSE j \in i..Len(Body) :
        /\ \A d \in i..j : IsToolMsg(d)
        /\ (j = Len(Body) \/ ~IsToolMsg(j + 1))

\* position of the wire turn that message i opens
WireIndex(i) ==
    Cardinality({j \in 1..(i - 1) : OwnTurn(j) \/ ToolRunBegins(j)}) + 1

\* C13: every run of k Tool messages with nothing but system messages
\* between them is translated into exactly one wire user turn made of k tool_result blocks in the order of the
\* messages; no tool_result block is put into a plain-text turn, an
\* image+text turn or an assistant turn, each of which keeps its own turn.
C13_ToolResultsMergeIntoOneTurn ==
    fpc = "done" =>
        LET api == acc.api_messages IN
        /\ Len(api) = Cardinality({i \in 1..Len(Body) : OwnTurn(i) \/ ToolRunBegins(i)})
        /\ \A i \in 1..Len(Body) : ToolRunBegins(i) =>
              LET k == ToolRunEnd(i) - i + 1
                  t == api[WireIndex(i)]
              IN  /\ t.role = "user"
                  /\ t.is_array
                  /\ Len(t.blocks) = k
                  /\ \A d \in 0..(k - 1) :
                        /\ t.blocks[d + 1].type = "tool_result"
                        /\ t.blocks[d + 1].id = Body[i + d].tool_call_id
                        /\ t.blocks[d + 1].text = AsText(Body[i + d])
        /\ \A i \in 1..Len(Body) : OwnTurn(i) =>
              LET t == api[WireIndex(i)] IN
              /\ \A b \in 1..Len(t.blocks) : t.blocks[b].type # "tool_result"
              /\ Body[i].variant = "Text" => ~t.is_array /\ t.text = AsText(Body[i])
              /\ Body[i].variant = "ImageWithText" =>
                    /\ t.role = "user"
                    /\ [b \in 1..Len(t.blocks) |-> t.blocks[b].type] = <<"image", "text">>

\* an image+text user message followed by the Tool messages t2, t1: two
\* wire turns, the second holding the results of t2 and t1 in that order
C13_Witness ==
    /\ fpc = "done"
    /\ arg = <<ImageMsg("caption"), ToolResultMsg("t2", "frobnicate", "out2"),
               ToolResultMsg("t1", "bash", "out1")>>
    /\ Len(acc.api_messages) = 2
    /\ [b \in 1..2 |-> acc.api_messages[2].blocks[b].id] = <<"t2", "t1">>

\* ---- C14 (SpecClient) -------------------------------------------------
\* C14: the client maps each exchange to one result: no reply gives
\* RequestError, 429 RateLimited, 401 AuthError, any other status outside
\* 200..299 RequestError, a 2xx with an undecodable body ParseError and a 2xx
\* with a decodable body the decoded response; RateLimited, the one result
\* the pool fails over on, comes from status 429 and from nothing else.
C14_ExchangeOutcomeMapping ==
    fpc = "done" =>
        LET twoxx == arg.transport /\ arg.status >= 200 /\ arg.status <= 299 IN
        /\ ~arg.transport => acc.kind = "RequestError"
        /\ (arg.transport /\ arg.status = 429) => acc.kind = "RateLimited"
        /\ (arg.transport /\ arg.status = 401) => acc.kind = "AuthError"
        /\ (arg.transport /\ ~twoxx /\ arg.status \notin {429, 401}) =>
              acc.kind = "RequestError"
        /\ (twoxx /\ ~arg.decodes) => acc.kind = "ParseError"
        /\ (twoxx /\ arg.decodes) => acc.ok /\ acc.kind = "Ok" /\ acc.resp = arg.resp
        /\ acc.ok = (acc.kind = "Ok")
        /\ acc.kind = "RateLimited" <=> (arg.transport /\ arg.status = 429)
        /\ IsRetryable(acc) <=> (arg.transport /\ arg.status = 429)

\* a 204 whose body decodes is a success
C14_Witness ==
    /\ fpc = "done"
    /\ arg = HttpReply(204, TRUE, Resp(Some("answer"), <<>>))
    /\ acc = OkResult(Resp(Some("answer"), <<>>))

\* ---- C15 (SpecTurn) ---------------------------------------------------
\* C15: when the turn has failed with a provider error and the handler has
\* answered, the session holds what it held when the turn began: the rows
\* the handler loaded, and nothing appended to them.
C15_FailedTurnLeavesHistoryUnchanged ==
    (hpc = "replied" /\ rpc = "failed") => session_messages = raw_history

\* ---- C16 (SpecClean) --------------------------------------------------
\* the token j opens a prompt line: "$ " preceded on its line by blanks only
PromptLineAt(t, j) ==
    /\ j < Len(t)
    /\ t[j] = "$"
    /\ t[j + 1] = SP
    /\ \E b \in 0..(j - 1) :
          /\ b = 0 \/ t[b] = NL
          /\ \A k \in (b + 1)..(j - 1) : t[k] = SP

\* a fence tagged bash, sh or shell, in any case, with a prompt line on a
\* later line before the next fence
HoldsShellBlock(t) ==
    \E i \in 1..(Len(t) - 1) :
        /\ t[i] = Fence
        /\ Lower(t[i + 1]) \in ShellTags
        /\ \E j \in (i + 2)..Len(t) :
              /\ PromptLineAt(t, j)
              /\ \A k \in (i + 1)..j : t[k] # Fence

HoldsLeakedMarkup(t) ==
    \/ Find(t, FunctionOpen, 1) # 0
    \/ Find(t, ToolCallOpen, 1) # 0
    \/ ToolCodeStart(t) # 0

\* C16: for the same text the answer of clean_response depends on
\* tools_used. Without "bash" in tools_used, a text that holds a fenced shell
\* block with a "$ " prompt line comes back without any such block. With
\* "bash" in tools_used nothing is stripped as fake command output and neither
\* the apology nor the disclaimer is put in, so a text without leaked tool
\* markup, without three newlines in a row and without outer whitespace
\* comes back unchanged.
C16_BashUseDecidesShellBlockStripping ==
    /\ (fpc = "done" /\ ~BashWasUsed(arg.tools_used) /\ HoldsShellBlock(arg.text))
          => ~HoldsShellBlock(acc.result)
    /\ (fpc \in {"strip", "fabricated", "collapse", "done"} /\ BashWasUsed(arg.tools_used))
          => /\ fpc # "strip"
             /\ Find(acc.result, Apology, 1) = 0
             /\ Find(acc.result, Warning, 1) = 0
    /\ ( /\ fpc = "done"
         /\ BashWasUsed(arg.tools_used)
         /\ ~HoldsLeakedMarkup(arg.text)
         /\ ~Contains(arg.text, <<NL, NL, NL>>)
         /\ Trim(arg.text) = arg.text )
          => acc.result = arg.text

\* a shell block between other text was stripped for a caller that used a
\* tool other than bash, and the rest of the text came back
C16_Witness ==
    /\ fpc = "done"
    /\ arg.tools_used = <<"memory_save">>
    /\ HoldsShellBlock(arg.text)
    /\ arg.text[1] = "word"
    /\ acc.result[1] = "word"
    /\ Find(acc.result, "$", 1) = 0

\* ---- C17 (SpecClean) --------------------------------------------------
\* C17: when the three removal loops of pass 1 are done, no opening marker
\* of leaked markup is left in the text: not "<function=", not "<tool_call>",
\* not a fence tagged tool_code; a marker without its closing delimiter is
\* deleted up to the end of its line.
C17_NoOpeningMarkerLeftDangling ==
    fpc \in {"fake_command", "done"} => ~HoldsLeakedMarkup(acc.result)

\* ---- C18 (SpecCleanFair) ----------------------------------------------
\* a text with its opening markers written as their two halves
Spelled(t) ==
    LET isMarker(i) == t[i] \in {FunctionOpen, ToolCallOpen}
        first(i) == i + Cardinality({j \in 1..(i - 1) : isMarker(j)})
        total == Len(t) + Cardinality({j \in 1..Len(t) : isMarker(j)})
        at(k) == CHOOSE i \in 1..Len(t) : first(i) = k \/ (isMarker(i) /\ first(i) + 1 = k)
    IN  [k \in 1..total |->
            LET i == at(k)
            IN  IF ~isMarker(i) THEN t[i]
                ELSE IF t[i] = FunctionOpen
                  THEN (IF first(i) = k THEN FunctionOpenHead ELSE FunctionOpenTail)
                ELSE (IF first(i) = k THEN ToolCallOpenHead ELSE ToolCallOpenTail)]

\* the tokens of a text that are neither whitespace nor one of the two
\* notices clean_response puts in
Substance(t) ==
    SelectSeq(Spelled(t), LAMBDA tok : ~IsWhitespace(tok) /\ tok \notin {Apology, Warning})

\* a is what is left of b after taking tokens out
RECURSIVE IsSubsequence(_, _)
IsSubsequence(a, b) ==
    IF a = <<>> THEN TRUE
    ELSE IF b = <<>> THEN FALSE
    ELSE IF a[1] = b[1] THEN IsSubsequence(Tail(a), Tail(b))
    ELSE IsSubsequence(a, Tail(b))

\* C18: clean_response is total. Once called, for every text and every
\* tools_used list, its loops come to an end and it returns; what it returns
\* is a text: the input, or the input with parts taken out and whitespace
\* normalised (no three newlines in a row, no outer whitespace), with or
\* without a notice put in (the disclaimer, or the apology in place of a
\* text that stripping left empty).
C18_CleanResponseIsTotal ==
    /\ (fpc = "function") ~> (fpc = "done")
    /\ [](fpc = "done" =>
            /\ acc.result \in Seq(STRING)
            /\ IsSubsequence(Substance(acc.result), Substance(arg.text))
            /\ ~Contains(acc.result, <<NL, NL, NL>>)
            /\ Trim(acc.result) = acc.result)

\* clean_response has returned for a text with a repeated opening marker
\* and no closing one
C18_Witness ==
    /\ fpc = "done"
    /\ arg.text = <<FunctionOpen, "word", FunctionOpen, "word">>
    /\ acc.result = <<>>

\* ---- C19 (SpecSeq) ----------------------------------------------------
\* C19: a log line chat() writes for an attempt shows a key in part only:
\* the key text of the line is not the whole of any key of the pool.
C19_LoggedKeyIsPartial ==
    \A pos \in 1..nkeys : logged.key # KeyAt(pos)

\* ---- C20 (SpecClean) --------------------------------------------------
\* an action phrase, in any case, or a tree glyph occurs in the text
HoldsClaimOrListing(t) ==
    \E i \in 1..Len(t) : t[i] \in {ActionClaim, ActionClaimUpper, TreeGlyph}

\* C20: the third pass only adds, and only when tools_used is empty. When
\* tools_used is empty and the text left by the first two passes holds an
\* action phrase or a tree glyph, the pass gives that text followed by the
\* disclaimer; in every other case it gives the text as it was. With a
\* non-empty tools_used the disclaimer is in no text of the run.
C20_DisclaimerAdditiveOnlyWithoutTools ==
    /\ [][fpc = "fabricated" =>
            /\ fpc' = "collapse"
            /\ IF arg.tools_used = <<>> /\ HoldsClaimOrListing(acc.result)
                 THEN acc'.result = acc.result \o <<NL, NL, Warning>>
                 ELSE acc'.result = acc.result]_vars
    /\ [](arg.tools_used # <<>> => Find(acc.result, Warning, 1) = 0)
    /\ [](fpc = "done" /\ Find(acc.result, Warning, 1) # 0 =>
            /\ arg.tools_used = <<>>
            /\ acc.result[Len(acc.result)] = Warning
            /\ HoldsClaimOrListing(Upto(acc.result, Len(acc.result))))

\* a text with an action phrase came back whole with the disclaimer after it
C20_Witness ==
    /\ fpc = "done"
    /\ arg.tools_used = <<>>
    /\ arg.text = <<"word", ActionClaimUpper>>
    /\ acc.result = <<"word", ActionClaimUpper, NL, NL, Warning>>

\* ---- C23 (Spec) -------------------------------------------------------
\* [System(system_prompt)] ++ history ++ [User(user_content)]
InitialList(history) == <<TextMsg("System", SystemPrompt)>> \o history \o <<UserContent>>

IsPrefix(a, b) == Len(a) <= Len(b) /\ SubSeq(b, 1, Len(a)) = a

\* the messages the first n responses made the loop append: one Assistant
\* message and one Tool message per call
RECURSIVE TurnMsgs(_, _)
TurnMsgs(rs, n) == IF n = 0 THEN 0 ELSE TurnMsgs(rs, n - 1) + 1 + Len(rs[n].tool_calls)

\* C23: the message list of a run starts as
\* [System(system_prompt)] ++ history ++ [User(user_content)] and only grows
\* at its end: that initial list stays a prefix of it, every step keeps the
\* list it finds as a prefix, and the list a model call is issued with is
\* the initial list extended by the Assistant and Tool messages of all
\* earlier responses, at least two per response, so it properly extends the
\* list of the call before.
C23_MessageListAppendOnly ==
    /\ [](rpc # "start" =>
            \E h \in Histories :
                /\ IsPrefix(InitialList(h), messages)
                /\ rpc = "in_chat" =>
                      /\ Len(responses) = modelCalls - 1
                      /\ Len(messages) = Len(InitialList(h)) + TurnMsgs(responses, Len(responses))
                      /\ TurnMsgs(responses, Len(responses)) >= 2 * Len(responses))
    /\ [][IsPrefix(messages, messages')]_vars
    /\ [][rpc = "start" => \E h \in Histories : messages' = InitialList(h)]_vars

\* the second model call of a run with a stored exchange is in flight, on the
\* initial four messages and the Assistant and three Tool messages of turn 1
C23_Witness ==
    /\ rpc = "in_chat"
    /\ modelCalls = 2
    /\ IsPrefix(InitialList(<<TextMsg("User", "q0"), TextMsg("Assistant", "a0")>>), messages)
    /\ Len(messages) = 8

\* ---- C24 (Spec) -------------------------------------------------------
\* the messages ms are, response by response, what the tool calls of the
\* responses rs ask for: one Assistant message with the text and the calls
\* of the response, then one Tool message per call, in order, with the
\* call's id and name and a text
RECURSIVE HoldsTurnsOf(_, _)
HoldsTurnsOf(ms, rs) ==
    IF rs = <<>> THEN ms = <<>>
    ELSE IF rs[1].tool_calls = <<>> THEN HoldsTurnsOf(ms, Tail(rs))
    ELSE LET k == Len(rs[1].tool_calls) IN
         /\ Len(ms) >= 1 + k
         /\ ms[1] = AssistantWithToolCalls(rs[1].content, rs[1].tool_calls)
         /\ \A j \in 1..k :
               /\ ms[1 + j].role = "Tool"
               /\ ms[1 + j].variant = "ToolResult"
               /\ ms[1 + j].tool_call_id = rs[1].tool_calls[j].id
               /\ ms[1 + j].name = rs[1].tool_calls[j].name
               /\ ms[1 + j].text # None
         /\ HoldsTurnsOf(SubSeq(ms, 2 + k, Len(ms)), Tail(rs))

\* no tool call of the run is waiting to be executed
BetweenTurns == rpc \in {"head", "in_chat", "returned", "failed", "panicked"}

\* C24: whenever the loop is not in the middle of executing the calls of a
\* response (a model call is about to be issued or in flight, or the run is
\* over), the message list after its initial part holds, for every response
\* with calls c1..ck so far, exactly one Assistant message with the text and
\* the calls verbatim followed by exactly k Tool messages in call order,
\* the i-th with the id and name of ci and the text the dispatcher gave.
C24_ToolCallsAnsweredInOrder ==
    BetweenTurns =>
        \E h \in Histories :
            /\ IsPrefix(InitialList(h), messages)
            /\ HoldsTurnsOf(SubSeq(messages, Len(InitialList(h)) + 1, Len(messages)),
                            responses)

\* ---- C25 (Spec) -------------------------------------------------------
\* the events of kind k among the first n progress events
EventsBefore(k, n) == Cardinality({i \in 1..n : progress[i][1] = k})

\* C25: the progress events follow the loop. There are as many Thinking
\* events as model calls, and the step that issues a model call is the step
\* that emits one. The ToolUse events name the executed tools in execution
\* order, and each lies behind the Thinking event of the response that asked
\* for the call and before the next Thinking event. A run that has returned
\* or failed takes no further step, so it emits nothing more.
C25_ProgressFollowsLoop ==
    /\ [](/\ EventsBefore("Thinking", Len(progress)) = modelCalls
          /\ EventsBefore("ToolUse", Len(progress)) = Len(tools_used)
          /\ \A i \in 1..Len(progress) :
                \/ progress[i] = <<"Thinking">>
                \/ LET n == EventsBefore("Thinking", i)
                       j == EventsBefore("ToolUse", i)
                   IN  /\ progress[i] = <<"ToolUse", tools_used[j]>>
                       /\ n \in 1..Len(responses)
                       /\ j > CallsIn(responses, n - 1)
                       /\ j <= CallsIn(responses, n)
                       /\ tools_used[j] = responses[n].tool_calls[j - CallsIn(responses, n - 1)].name
          /\ RunEnded => ~ENABLED Next)
    /\ [][(modelCalls' # modelCalls) <=> (progress' = Append(progress, <<"Thinking">>))]_vars
    /\ [][(progress' # progress /\ modelCalls' = modelCalls) =>
            /\ rpc = "tools"
            /\ progress' = Append(progress, <<"ToolUse", pending[tcIdx].name>>)]_vars

\* two turns with tools: Thinking, three ToolUse events, Thinking, one more
C25_Witness ==
    /\ rpc = "returned"
    /\ progress = <<<<"Thinking">>, <<"ToolUse", "bash">>, <<"ToolUse", "memory_save">>,
                    <<"ToolUse", "bash">>, <<"Thinking">>, <<"ToolUse", "frobnicate">>>>

\* ---- C26 (Spec) -------------------------------------------------------
\* C26: in the result of a run that returned Ok, turns is the number of
\* model calls the loop issued and provider is the name that came with the
\* last successful response; provider is "" exactly when the loop issued no
\* model call, which happens with max_turns = 0 only.
C26_ResultTurnsAndProvider ==
    rpc = "returned" =>
        /\ result.ok
        /\ result.turns = modelCalls
        /\ Len(responses) = modelCalls
        /\ result.provider = last_provider
        /\ responses # <<>> => result.provider = "claude"
        /\ result.provider = "" <=> modelCalls = 0
        /\ modelCalls = 0 => max_turns = 0

\* a run returned after two model calls, both answered with tool calls
C26_Witness ==
    /\ rpc = "returned"
    /\ EveryResponseCallsTools
    /\ result.turns = 2
    /\ result.provider = "claude"

\* ---- C27 (SpecSeq) ----------------------------------------------------
\* every key attempted in the current call answered success or RateLimited
OnlyOkOrRateLimited == \A i \in 1..Len(outcomes[1]) : outcomes[1][i] \in {"Ok", "RateLimited"}

TimesTaken(k) ==
    Cardinality({pi \in Procs \X (1..MaxConcKeys) :
                    pi[2] <= Len(tried[pi[1]]) /\ tried[pi[1]][pi[2]] = k})

\* next_key() calls made so far by the callers 1..p
RECURSIVE KeysTaken(_)
KeysTaken(p) == IF p = 0 THEN 0 ELSE KeysTaken(p - 1) + Len(tried[p])

\* C22: the cursor is updated atomically. Whatever the interleaving of the
\* callers, each next_key() call on a non-empty pool takes the key at the
\* cursor value it finds and leaves the cursor at that value plus one; so
\* after n calls the cursor stands at n, the calls have seen the values
\* 0..n-1 once each, and no update is lost or made twice.
C22_CursorUpdatedAtomically ==
    /\ [][index' # index =>
            /\ nkeys >= 1
            /\ index' = index + 1
            /\ \E p \in Procs :
                  /\ tried'[p] = Append(tried[p], (index % nkeys) + 1)
                  /\ \A q \in Procs \ {p} : tried'[q] = tried[q]]_vars
    /\ [](/\ index = KeysTaken(NumProcs)
          /\ \A k \in 1..nkeys :
                TimesTaken(k) = Cardinality({v \in 0..(index - 1) : (v % nkeys) + 1 = k}))

\* two callers on two keys, both rate limited twice: four next_key() calls
\* interleaved, the second caller having taken the first and the last value
C22_Witness ==
    /\ nkeys = 2
    /\ index = 4
    /\ tried[1] = <<2, 1>>
    /\ tried[2] = <<1, 2>>

\* ---- C29 (SpecWire) ---------------------------------------------------
\* the text of an assistant message is present and not empty
HasText(m) == m.text # None /\ m.text[1] # ""

\* C29: every Assistant message with tool calls is translated into one wire
\* assistant turn made of blocks: a text block first if and only if the text
\* is present and not empty, then one tool_use block per call, in call order,
\* with the call's id and name; the input of a call whose arguments are not
\* valid JSON is the empty object, and the translation of a list that holds
\* such a call goes on to its end.
C29_AssistantToolCallsTranslation ==
    /\ fpc = "for" => ENABLED NextWire
    /\ fpc = "done" =>
          \A i \in 1..Len(Body) : Body[i].variant = "AssistantWithToolCalls" =>
              LET m == Body[i]
                  t == acc.api_messages[WireIndex(i)]
                  off == IF HasText(m) THEN 1 ELSE 0
              IN  /\ t.role = "assistant"
                  /\ t.is_array
                  /\ Len(t.blocks) = off + Len(m.calls)
                  /\ HasText(m) => t.blocks[1].type = "text" /\ t.blocks[1].text = m.text[1]
                  /\ \A b \in (off + 1)..Len(t.blocks) :
                        LET tc == m.calls[b - off] IN
                        /\ t.blocks[b].type = "tool_use"
                        /\ t.blocks[b].id = tc.id
                        /\ t.blocks[b].name = tc.name
                        /\ tc.args.json => t.blocks[b].input = tc.args
                        /\ ~tc.args.json => t.blocks[b].input = EmptyObject

\* a message with tool calls and text, one with an empty text and a call with
\* malformed arguments, one without text: three assistant turns of two blocks
\* each, the first block of the second turn being the malformed call with the
\* empty object as input
C29_Witness ==
    /\ fpc = "done"
    /\ arg = <<AssistantWithToolCalls(Some("r1"), <<TcBash("t1")>>),
               AssistantWithToolCalls(Some(""), <<TcBashMalformed("t1"), TcUnknown("t2")>>),
               AssistantWithToolCalls(None, <<TcUnknown("t2"), TcBash("t1")>>)>>
    /\ [k \in 1..3 |-> Len(acc.api_messages[k].blocks)] = <<2, 2, 2>>
    /\ acc.api_messages[1].blocks[1].type = "text"
    /\ acc.api_messages[2].blocks[1].type = "tool_use"
    /\ acc.api_messages[2].blocks[1].input = EmptyObject
    /\ acc.api_messages[3].blocks[2].input = TcBash("t1").args

\* ---- C30 (SpecWire) ---------------------------------------------------
IsSystem(m) == m.role = "System"

\* the texts of the System messages of the list, in order
SystemTexts == [k \in 1..Len(SelectSeq(arg, IsSystem)) |-> AsText(SelectSeq(arg, IsSystem)[k])]

\* the first n texts, each but the first after a blank line
RECURSIVE JoinedWithBlankLines(_, _)
JoinedWithBlankLines(ts, n) ==
    IF n = 0 THEN <<>>
    ELSE PushStr(IF n > 1 THEN Append(JoinedWithBlankLines(ts, n - 1), BlankLine)
                          ELSE <<>>, ts[n])

\* what a wire turn says of the messages it was made from, one entry per
\* message
OriginsOf(t) ==
    IF ~t.is_array THEN <<<<t.role, "Text", t.text>>>>
    ELSE IF t.blocks # <<>> /\ t.blocks[1].type = "tool_result"
           THEN [b \in 1..Len(t.blocks) |-> <<"tool", "ToolResult", t.blocks[b].id>>]
    ELSE IF t.blocks # <<>> /\ t.blocks[1].type = "image"
           THEN <<<<t.role, "ImageWithText", t.blocks[2].text>>>>
    ELSE <<<<t.role, "AssistantWithToolCalls",
             [b \in 1..Len(SelectSeq(t.blocks, LAMBDA x : x.type = "tool_use")) |->
                 SelectSeq(t.blocks, LAMBDA x : x.type = "tool_use")[b].id]>>>>

RECURSIVE OriginsOfTurns(_, _)
OriginsOfTurns(api, n) ==
    IF n = 0 THEN <<>> ELSE OriginsOfTurns(api, n - 1) \o OriginsOf(api[n])

\* the same entry, read from the message
OriginOf(m) ==
    CASE m.variant = "ToolResult" -> <<"tool", "ToolResult", m.tool_call_id>>
      [] m.variant = "AssistantWithToolCalls" ->
             <<"assistant", "AssistantWithToolCalls",
               [c \in 1..Len(m.calls) |-> m.calls[c].id]>>
      [] OTHER -> <<IF m.role = "User" THEN "user" ELSE "assistant", m.variant, AsText(m)>>

LastKeyTaken == IF tried[1] # <<>> THEN Last(tried[1]) ELSE prevLast

\* C28: every next_key() call returns the key that follows, in rotation
\* order, the key the call before it returned, whatever the value of the
\* cursor, the largest value of its width included.
C28_ConsecutiveKeysAdjacent ==
    [][(index' # index /\ LastKeyTaken # 0) =>
           LastKeyTaken' = SuccKey(LastKeyTaken, nkeys)]_vars

\* ---- C21 (SpecProgress) -----------------------------------------------
\* a step of run: the loop, the pool call it is in, a tool
RunSteps ==
    \/ HandlerRunStart
    \/ RunHead
    \/ RunChatNextKey
    \/ \E x \in Exchanges(LoopResps \cup ExtractResps) : RunChatReply(x)
    \/ RunAfterChat
    \/ \E e \in {Env(ok, o) : ok \in BOOLEAN, o \in CommandOutputs \cup {EmptyStr}} : RunTool(e)
    \/ RunAfterExtract

\* C21: the progress callback does not hold up the turn loop. The step that
\* emits an event is the step that invokes the callback, and the callback
\* returns in it: an edit it dispatches is left in flight, not completed.
\* Whatever edits are in flight, completed or not, a run that has not ended
\* has a step of its own to take. An update that
\* arrives less than the minimum interval after the last dispatched one is
\* dropped: no edit is dispatched for it and last_edit stays.
C21_ProgressCallbackNeverBlocks ==
    /\ [][progress' # progress =>
            /\ shown' = shown
            /\ \/ edits' = edits /\ last_edit' = last_edit
               \/ edits' = Append(edits, DisplayText(Last(progress'))) /\ last_edit' = now'
            /\ rpc' # rpc \/ tools_used' # tools_used]_vars
    /\ []((hpc = "run" /\ ~RunEnded) => ENABLED RunSteps)
    /\ [][(progress' # progress /\ now' >= last_edit /\ now' - last_edit < MinEditInterval) =>
            edits' = edits /\ last_edit' = last_edit]_vars
    /\ [][(progress' # progress /\ now' - last_edit >= MinEditInterval) =>
            Len(edits') = Len(edits) + 1]_vars

\* the edit of the first Thinking event is still in flight, the progress
\* message still shows its first text, a later ToolUse event came 1499 ms
\* after the dispatch and was dropped, and the run has returned
C21_Witness ==
    /\ hpc = "run"
    /\ rpc = "returned"
    /\ tools_used # <<>>
    /\ Len(progress) >= 2
    /\ edits = <<DisplayText(Thinking)>>
    /\ shown = InitialProgressText
    /\ last_edit = ClockBase
    /\ now = ClockBase + MinEditInterval - 1

\* ---- C31 (SpecClean) --------------------------------------------------
\* the text the second pass of clean_response is given
BeforeSecondPass == StripAllToolCodeBlocks(StripAllToolCallTags(StripAllFunctionTags(arg.text)))

\* the second pass strips: bash is not in tools_used and an indicator is found
SecondPassStrips == StripsFakeCommands(BeforeSecondPass, arg.tools_used)

\* C31: when the second pass strips and leaves nothing but whitespace, the
\* result becomes the fixed text; so the text clean_response returns after a
\* second pass that stripped is never empty.
C31_StrippedToNothingGivesFixedText ==
    /\ (fpc = "done" /\ SecondPassStrips) => acc.result # <<>>
    /\ (fpc = "done" /\ SecondPassStrips
          /\ Trim(StripLinesFrom(Lines(BeforeSecondPass), 1, <<>>)) = <<>>) =>
            (acc.result # <<>> /\ acc.result[1] = Apology)

\* "$ uptime" with memory_save used: the one line is stripped and the fixed
\* text is returned
C31_Witness ==
    /\ fpc = "done"
    /\ arg.text = <<"$", SP, SystemCommand>>
    /\ arg.tools_used = <<"memory_save">>
    /\ acc.result = <<Apology>>

\* ---- C32 (SpecClean) --------------------------------------------------
\* C32: the text clean_response returns holds no three newlines in a row,
\* and neither begins nor ends with whitespace.
C32_NoTripleNewlineNoOuterWhitespace ==
    fpc = "done" =>
        /\ \A i \in 1..(Len(acc.result) - 2) :
              ~(acc.result[i] = NL /\ acc.result[i + 1] = NL /\ acc.result[i + 2] = NL)
        /\ acc.result # <<>> =>
              ~IsWhitespace(acc.result[1]) /\ ~IsWhitespace(acc.result[Len(acc.result)])

\* a listing glyph and a newline, no tool used: the warning is appended after
\* two more newlines, which makes three in a row inside the text; two are
\* left
C32_Witness ==
    /\ fpc = "done"
    /\ arg.text = <<TreeGlyph, NL>>
    /\ arg.tools_used = <<>>
    /\ acc.result = <<TreeGlyph, NL, NL, Warning>>

\* ---- C38 (SpecClean) --------------------------------------------------
\* C38: the text clean_response returns holds neither the opening marker
\* "<function=" nor the opening marker "<tool_call>", also when the removal
\* of markup of one kind brings the two halves of a marker of the other kind
\* together.
C38_NoOpeningMarkerInOutput ==
    fpc = "done" =>
        /\ Find(acc.result, FunctionOpen, 1) = 0
        /\ Find(acc.result, ToolCallOpen, 1) = 0

\* ---- C40 (SpecSeq) ----------------------------------------------------
\* C40: a chat() call moves the shared cursor by one for each key attempt it
\* makes and by nothing else (not at all on an empty pool, by 1 to N
\* otherwise), the key list stays as it is, and each attempt takes the key
\* at the cursor among all N keys, whatever the keys answered before: a key
\* that answered AuthError or RateLimited is taken again by a later call.
C40_CursorAdvancesByAttemptsKeysStay ==
    /\ [][/\ nkeys' = nkeys
          /\ IF ncalls'[1] # ncalls[1]
               THEN tried'[1] = <<>> /\ index' = index
               ELSE /\ index' = (index + Len(tried'[1]) - Len(tried[1])) % (2 ^ CursorBits)
                    /\ Len(tried'[1]) \in {Len(tried[1]), Len(tried[1]) + 1}
                    /\ Len(tried'[1]) > Len(tried[1]) =>
                         Last(tried'[1]) = (index % nkeys) + 1]_vars
    /\ [](cpc[1] = "done" =>
            /\ nkeys = 0 => Len(tried[1]) = 0
            /\ nkeys > 0 => Len(tried[1]) \in 1..nkeys)

\* the second call takes the key that answered the first call with AuthError
C40_Witness ==
    /\ ncalls[1] = 2
    /\ cpc[1] = "await"
    /\ cres[1].ok = FALSE
    /\ cres[1].kind = "AuthError"
    /\ nkeys = 1
    /\ tried[1] = <<1>>
    /\ index = 2

\* ---- C35 (Spec) -------------------------------------------------------
\* C35: when the turn budget runs out after at least one model call, the
\* text returned is the text of the last response, which carried tool calls
\* (the empty text when it had none), not the fixed fallback and not a text
\* of the history; a run returns the fixed fallback only with max_turns = 0
\* on a history without an Assistant message.
C35_MaxTurnsTextComesFromLastResponse ==
    /\ (BudgetExhausted /\ max_turns >= 1) =>
          /\ result.ok
          /\ responses[max_turns].tool_calls # <<>>
          /\ result.response = UnwrapOrDefault(responses[max_turns].content)
          /\ result.response # MaxTurnsFallback
          /\ \A i \in 1..(Len(messages) - TurnMsgs(responses, max_turns)) :
                messages[i].text # Some(result.response)
    /\ (rpc = "returned" /\ result.ok /\ result.response = MaxTurnsFallback) =>
          /\ max_turns = 0
          /\ \A i \in 1..Len(messages) : messages[i].role # "Assistant"

\* a history that holds an Assistant message and a single response without
\* text: the empty text is returned
C35_Witness ==
    /\ BudgetExhausted
    /\ max_turns = 1
    /\ Len(messages) > 3
    /\ messages[3] = TextMsg("Assistant", "a0")
    /\ responses[1].content = None
    /\ result.response = ""

\* ---- C36 (SpecProgress) -----------------------------------------------
\* C36: once the handler has written the final answer (or the error text)
\* into the progress message, the message shows that text: no edit that the
\* progress callback dispatched during the run is applied to it afterwards.
C36_NoProgressEditAfterFinalAnswer ==
    hpc = "replied" => (shown[1] = reply[1] /\ shown[2] = reply[2])

\* ---- C37 (SpecSession) ------------------------------------------------
\* the rows the session held when the message arrived
StoredBefore == SubSeq(session_messages, 1, Len(raw_history))

\* the places of the message list that hold the new user content
UserContentPlaces == {i \in 1..Len(messages) : messages[i] = UserContent}

Effects == UNION {EffectsOf(acc.entered[i]) : i \in 1..Len(acc.entered)}

\* C39: with a non-empty list of allowed users, handle_message answers a
\* user who is not in the list with "Unauthorized." and nothing else: no
\* handler is entered, so no agent run, no command, no download and no
\* store access; with an empty list no user is turned away and the message
\* goes to the handler its content selects.
C39_UnlistedUserOnlyGetsUnauthorized ==
    fpc = "returned" =>
        /\ (acc.allowed_users # <<>>
              /\ UserIdOf(arg.msg.from) \notin Range(acc.allowed_users)) =>
                 (acc.sent = <<"Unauthorized.">> /\ acc.entered = <<>> /\ Effects = {})
        /\ acc.allowed_users = <<>> =>
             /\ acc.sent = <<>>
             /\ RouteOf(arg.msg) # "return" => acc.entered = <<RouteOf(arg.msg)>>

\* user 9 writes a sentence to a bot that allows 7 and 8
C39_Witness ==
    /\ fpc = "returned"
    /\ arg.env = Some(<<"7", " 8 ">>)
    /\ arg.msg.from = Some(9)
    /\ arg.msg.text = Some("hello")
    /\ acc.allowed_users = <<7, 8>>
    /\ acc.sent = <<"Unauthorized.">>

\* ---- C34 (Spec) -------------------------------------------------------
\* the ids of the blocks of one type in a wire turn, in order
BlockIds(t, type) ==
    LET bs == SelectSeq(t.blocks, LAMBDA b : b.type = type)
    IN  [i \in 1..Len(bs) |-> bs[i].id]

\* the wire turns of the message list the run hands to the model
WireTurns == BuildClaudeMessages(messages).api_messages

\* C34: in the wire translation of every message list that run sends to the
\* model, an assistant turn with tool_use blocks of ids id1..idk is followed
\* at once by a user turn that consists of k tool_result blocks with
\* tool_use_id id1..idk in this order, and tool_result blocks stand only in
\* such a turn: no result without its call in the turn before.
C34_ToolUseTurnsPairedWithResults ==
    rpc = "in_chat" =>
        \A i \in 1..Len(WireTurns) :
            /\ (WireTurns[i].role = "assistant" /\ BlockIds(WireTurns[i], "tool_use") # <<>>) =>
                  /\ i < Len(WireTurns)
                  /\ WireTurns[i + 1].role = "user"
                  /\ WireTurns[i + 1].is_array
                  /\ \A j \in 1..Len(WireTurns[i + 1].blocks) :
                        WireTurns[i + 1].blocks[j].type = "tool_result"
                  /\ BlockIds(WireTurns[i + 1], "tool_result") =
                        BlockIds(WireTurns[i], "tool_use")
            /\ BlockIds(WireTurns[i], "tool_result") # <<>> =>
                  /\ WireTurns[i].role = "user"
                  /\ i > 1
                  /\ WireTurns[i - 1].role = "assistant"
                  /\ BlockIds(WireTurns[i], "tool_result") =
                        BlockIds(WireTurns[i - 1], "tool_use")

\* the second model call of a run whose first response carried three calls
C34_Witness ==
    /\ rpc = "in_chat"
    /\ Len(responses) = 1
    /\ Len(responses[1].tool_calls) = 3
    /\ Len(WireTurns) > 1
    /\ BlockIds(Last(WireTurns), "tool_result") = <<"t1", "t2", "t3">>

\* ---- C33 (SpecFair) ---------------------------------------------------
\* C33: when every provider call and every tool execution returns, run
\* comes to an end: it returns Ok (a final response, or the turn budget
\* used up) or the error of a failed call, unless a tool execution did not
\* return but panicked. Every entry into a turn (a model call) finds turn
\* equal to the number of turns entered before and below max_turns, and
\* turn never decreases: no turn is entered twice on the same budget.
C33_RunTerminatesEachTurnUsesBudget ==
    /\ <>RunEnded
    /\ [][/\ turn' \in {turn, turn + 1}
          /\ turn' <= max_turns
          /\ modelCalls' # modelCalls =>
                (modelCalls' = modelCalls + 1 /\ turn = modelCalls /\ turn < max_turns)
          /\ (rpc' = "head" /\ rpc # "start") => turn' = turn + 1]_vars

\* a run that used up a budget of two turns
C33_Witness ==
    /\ rpc = "returned"
    /\ max_turns = 2
    /\ turn = 2
    /\ modelCalls = 2
    /\ Len(tools_used) > 2

====
